---------------------------- MODULE Spec2Model ----------------------------
(***************************************************************************)
(* A model of the gameplay core of KAIKO (src/kaiko/beatmap.py): the       *)
(* judgement function, the note targets (Soft, Loud, Incr, Roll, Spin),    *)
(* the context-inferred grouping of Incr notes, the playfield's target     *)
(* dispatcher and the game loop's registration and score bookkeeping.      *)
(*                                                                         *)
(* Units.  Wall times are integers (one unit is one performance_tolerance  *)
(* when the tolerance is 1).  Knock strengths, thresholds, Spin charge and *)
(* Spin capacity are integers counting tenths (0.5 is 5, 1.0 is 10).       *)
(* Beats of Incr notes are integers counting half beats (1.5 is 3).        *)
(* Floating point rounding is not modelled.                                *)
(*                                                                         *)
(* Python's None is the empty tuple and a present value x is <<x>>.        *)
(***************************************************************************)
EXTENDS Integers, Sequences, FiniteSets, TLC

VARIABLES
    jin,              \* arguments of one call of Performance.judge
    jout,             \* its result, NoResult before the call
    context,          \* context['_incrs'] of the Incr constructor, in order
    built,            \* history: arguments and key of each Incr constructed
    duration,         \* KAIKOGame.connect's `duration` of the audio
    ltick,            \* history: the game loop's last tick, or None
    mixer,            \* AudioMixer: buffer length, the index of _node, its state
    mutations,        \* AudioMixer.mutations, the queue
    effects,          \* the scheduler's children, in the order they are run
    summed,           \* history: the source samples summed into the output
    ended,            \* history: the children that ended, as they ended
    mlog,             \* history: the mutations applied, in order
    detector,         \* KnockDetector: settings, _node's locals, history
    datanode,         \* a GeneratorDataNode and the history of its calls
    composite,        \* a pipe, pair or chain node, its children, history
    unchunker,        \* an unchunk node, its inner node, history
    line,             \* a TerminalLine, and the history of its last call
    console,          \* KnockConsole.run: where it is, what it has closed
    recorder,         \* the input callback of record: format, data sent
    tslicer,          \* a tslice node: its source, what it has yielded
    renderer,         \* ScreenRenderer._node: its index, the frames drawn
    shifter,          \* a Shift event's drawer and the playfield's bar_shift
    audio,            \* a stream of play or record, its node and its threads
    drawers,          \* the renderer's drawers and PlayField's registrations
    events,           \* the target objects (KAIKOGame.events), by index
    groups,           \* the IncrGroup objects, by group id
    call,             \* the last method call made on a target object
    delivered,        \* history: strengths passed to IncrGroup.hit, per group
    nhits,            \* history: number of hit calls, per target
    target_queue,     \* PlayField.target_queue
    waiting_targets,  \* _target_handler's waiting_targets
    target,           \* _target_handler's (target, start, duration), or None
    nodes,            \* the data node of each target's _node generator
    step,             \* history: what _target_handler did with its last event
    now,              \* the time of the next detector event and game tick
    prepared,         \* number of padding events the detector has sent
    ticked,           \* the game loop has had its tick of time `now`
    event_iter,       \* index of the game loop's current `event`, 0 for None
    playfield,        \* PlayField.full_score, score and progress
    pc                \* where KAIKOGame.connect is

jvars == <<jin, jout>>
bvars == <<context, built>>
lvars == <<duration, ltick>>
\* the variables of the specifications of the single components
mvars == <<mixer, mutations, effects, summed, ended, mlog>>
evars == <<tslicer, renderer, shifter, audio, drawers>>
cvars == <<composite, unchunker, line, console, recorder, evars>>
dvars == <<detector, datanode, cvars>>
xvars == <<lvars, mvars, dvars>>
ovars == <<events, groups, call, delivered, nhits>>
fvars == <<target_queue, waiting_targets, target, nodes, step, now, prepared,
           ticked, event_iter, playfield, pc>>
vars == <<jin, jout, context, built, duration, ltick, mixer, mutations,
          effects, summed, ended, mlog, detector, datanode, composite, unchunker,
          line, console, recorder, tslicer, renderer, shifter, audio, drawers,
          events, groups, call, delivered, nhits, target_queue,
          waiting_targets, target, nodes, step, now, prepared, ticked,
          event_iter, playfield, pc>>

---------------------------------------------------------------------------
(* Bounds of the model *)

MaxTol == 4           \* performance_tolerance ranges over 1..MaxTol
MaxHits == 9          \* hit calls made on one Roll or Spin
MaxOneshotHits == 2   \* hit calls made on one Soft, Loud or Incr
MaxRocks == 4         \* rocks of a Roll

---------------------------------------------------------------------------
(* Python values *)

None == <<>>
Some(x) == <<x>>
abs(x) == IF x < 0 THEN -x ELSE x
min(a, b) == IF a <= b THEN a ELSE b
max(a, b) == IF a >= b THEN a ELSE b

---------------------------------------------------------------------------
(* PerformanceGrade and Performance.judge *)

MISS == "MISS"

GradeNames ==
    {"MISS", "PERFECT", "LATE_GOOD", "EARLY_GOOD", "LATE_BAD", "EARLY_BAD",
     "LATE_FAILED", "EARLY_FAILED", "PERFECT_WRONG", "LATE_GOOD_WRONG",
     "EARLY_GOOD_WRONG", "LATE_BAD_WRONG", "EARLY_BAD_WRONG",
     "LATE_FAILED_WRONG", "EARLY_FAILED_WRONG"}

\* PerformanceGrade((shift, is_wrong)): the member of the enum with that value
PerformanceGrade(shift, is_wrong) ==
    CASE shift =  0 /\ ~is_wrong -> "PERFECT"
      [] shift =  1 /\ ~is_wrong -> "LATE_GOOD"
      [] shift = -1 /\ ~is_wrong -> "EARLY_GOOD"
      [] shift =  2 /\ ~is_wrong -> "LATE_BAD"
      [] shift = -2 /\ ~is_wrong -> "EARLY_BAD"
      [] shift =  3 /\ ~is_wrong -> "LATE_FAILED"
      [] shift = -3 /\ ~is_wrong -> "EARLY_FAILED"
      [] shift =  0 /\ is_wrong  -> "PERFECT_WRONG"
      [] shift =  1 /\ is_wrong  -> "LATE_GOOD_WRONG"
      [] shift = -1 /\ is_wrong  -> "EARLY_GOOD_WRONG"
      [] shift =  2 /\ is_wrong  -> "LATE_BAD_WRONG"
      [] shift = -2 /\ is_wrong  -> "EARLY_BAD_WRONG"
      [] shift =  3 /\ is_wrong  -> "LATE_FAILED_WRONG"
      [] shift = -3 /\ is_wrong  -> "EARLY_FAILED_WRONG"

\* PerformanceGrade.shift of a grade other than MISS
grade_shift(g) ==
    CASE g \in {"PERFECT", "PERFECT_WRONG"} -> 0
      [] g \in {"LATE_GOOD", "LATE_GOOD_WRONG"} -> 1
      [] g \in {"EARLY_GOOD", "EARLY_GOOD_WRONG"} -> -1
      [] g \in {"LATE_BAD", "LATE_BAD_WRONG"} -> 2
      [] g \in {"EARLY_BAD", "EARLY_BAD_WRONG"} -> -2
      [] g \in {"LATE_FAILED", "LATE_FAILED_WRONG"} -> 3
      [] g \in {"EARLY_FAILED", "EARLY_FAILED_WRONG"} -> -3

\* PerformanceGrade.is_wrong of a grade other than MISS
grade_is_wrong(g) ==
    g \in {"PERFECT_WRONG", "LATE_GOOD_WRONG", "EARLY_GOOD_WRONG",
           "LATE_BAD_WRONG", "EARLY_BAD_WRONG", "LATE_FAILED_WRONG",
           "EARLY_FAILED_WRONG"}

\* a plausible slip: the tolerance bounds taken as inclusive
first_shift_inclusive(tol, err) ==
    IF abs(err) <= tol * 1 THEN 0
    ELSE IF abs(err) <= tol * 3 THEN 1
    ELSE IF abs(err) <= tol * 5 THEN 2
    ELSE 3

\* a plausible slip: the ladder taken as 1, 2 and 3 times tol
first_shift_linear(tol, err) ==
    IF abs(err) < tol * 1 THEN 0
    ELSE IF abs(err) < tol * 2 THEN 1
    ELSE IF abs(err) < tol * 3 THEN 2
    ELSE 3

\* next((i for i in range(3) if abs(err) < tol*(2*i+1)), 3)
first_shift(tol, err) ==
    IF abs(err) < tol * 1 THEN 0
    ELSE IF abs(err) < tol * 3 THEN 1
    ELSE IF abs(err) < tol * 5 THEN 2
    ELSE 3

\* Performance.judge(tol, time, hit_time, is_correct_key): the grade
judge(tol, time, hit_time, is_correct_key) ==
    IF hit_time = None THEN MISS
    ELSE LET is_wrong == ~is_correct_key
             err == hit_time[1] - time
             shift == first_shift(tol, err)
         IN  PerformanceGrade(IF err < 0 THEN -shift ELSE shift, is_wrong)

---------------------------------------------------------------------------
(* BeatmapSettings (defaults), in the model's units *)

soft_threshold == 5            \* 0.5
loud_threshold == 5            \* 0.5
incr_threshold == -1           \* -0.1
roll_tolerance == 5            \* 0.10 s, in units of 0.02 s
spin_tolerance == 5            \* 0.10 s, in units of 0.02 s
roll_rock_score == 2
spin_score == 16

failed_tolerance(performance_tolerance) == performance_tolerance * 7

performances_scores ==
    [g \in GradeNames |->
        CASE g = "PERFECT" -> 16
          [] g \in {"LATE_GOOD", "EARLY_GOOD"} -> 8
          [] g \in {"LATE_BAD", "EARLY_BAD"} -> 2
          [] g = "PERFECT_WRONG" -> 8
          [] g \in {"LATE_GOOD_WRONG", "EARLY_GOOD_WRONG"} -> 4
          [] g \in {"LATE_BAD_WRONG", "EARLY_BAD_WRONG"} -> 1
          [] OTHER -> 0]

\* max(self.performances_scores.values())
performances_max_score ==
    CHOOSE m \in {performances_scores[g] : g \in GradeNames} :
        \A g \in GradeNames : performances_scores[g] <= m

---------------------------------------------------------------------------
(* Target objects.  travel_time stands for 1.0 / abs(0.5 * speed).  The    *)
(* drawers and sounds a target attaches to the field are not modelled, nor *)
(* the perfs list of a Roll.                                               *)

NoPerf == "NoPerf"             \* self.perf = None

OneshotTarget(kind, time, performance_tolerance, travel_time) ==
    [kind |-> kind,
     time |-> time,
     performance_tolerance |-> performance_tolerance,
     perf |-> NoPerf,
     lifespan |-> <<time - travel_time, time + travel_time>>,
     range |-> <<time - failed_tolerance(performance_tolerance),
                 time + failed_tolerance(performance_tolerance)>>,
     full_score |-> performances_max_score]

Soft(time, performance_tolerance, travel_time) ==
    [threshold |-> soft_threshold] @@
    OneshotTarget("Soft", time, performance_tolerance, travel_time)

Loud(time, performance_tolerance, travel_time) ==
    [threshold |-> loud_threshold] @@
    OneshotTarget("Loud", time, performance_tolerance, travel_time)

\* the part of Incr.__init__ that does not depend on the context
IncrObject(time, performance_tolerance, travel_time, group, count) ==
    [incr_threshold |-> incr_threshold, group |-> group, count |-> count] @@
    OneshotTarget("Incr", time, performance_tolerance, travel_time)

IncrGroup == [threshold |-> 0, total |-> 0]

\* number is int(length * density); time and end are the times of beat and
\* beat + length
Roll(time, end, number, travel_time) ==
    [kind |-> "Roll",
     time |-> time,
     end |-> end,
     roll |-> 0,
     number |-> number,
     is_finished |-> FALSE,
     lifespan |-> <<time - travel_time, end + travel_time>>,
     range |-> <<time - roll_tolerance, end - roll_tolerance>>,
     full_score |-> number * roll_rock_score]

\* capacity is length * density, in tenths
Spin(time, end, capacity, travel_time) ==
    [kind |-> "Spin",
     time |-> time,
     end |-> end,
     charge |-> 0,
     capacity |-> capacity,
     is_finished |-> FALSE,
     lifespan |-> <<time - travel_time, end + travel_time>>,
     range |-> <<time - spin_tolerance, end + spin_tolerance>>,
     full_score |-> spin_score]

Oneshots == {"Soft", "Loud", "Incr"}

\* OneshotTarget.finish(field, perf); perf = NoPerf is the default argument
OneshotTarget_finish(o, perf) ==
    [o EXCEPT !.perf = IF perf = NoPerf
                       THEN judge(o.performance_tolerance, o.time, None, TRUE)
                       ELSE perf]

OneshotTarget_hit(o, time, strength, is_correct_key) ==
    OneshotTarget_finish(o,
        judge(o.performance_tolerance, o.time, Some(time), is_correct_key))

\* a plausible slip: the comparison of Soft.hit made inclusive
Soft_hit_inclusive(o, time, strength) ==
    OneshotTarget_hit(o, time, strength, strength <= o.threshold)

Soft_hit(o, time, strength) ==
    OneshotTarget_hit(o, time, strength, strength < o.threshold)

Loud_hit(o, time, strength) ==
    OneshotTarget_hit(o, time, strength, strength >= o.threshold)

\* a plausible slip: the watermark replaced by the last strength
IncrGroup_hit_last(g, strength) ==
    [g EXCEPT !.threshold = strength]

IncrGroup_hit(g, strength) ==
    [g EXCEPT !.threshold = max(g.threshold, strength)]

\* Incr.hit, the note's part; g is the note's group before the knock
Incr_hit(o, g, time, strength) ==
    LET threshold == max(0, min(10, g.threshold + o.incr_threshold))
    IN  OneshotTarget_hit(o, time, strength, strength >= threshold)

Roll_hit(o, time, strength) ==
    [o EXCEPT !.roll = @ + 1]

Roll_finish(o) ==
    [o EXCEPT !.is_finished = TRUE]

Spin_finish(o) ==
    [o EXCEPT !.is_finished = TRUE]

Spin_hit(o, time, strength) ==
    LET charged == [o EXCEPT !.charge =
                        min(o.charge + min(10, strength), o.capacity)]
    IN  IF charged.charge = o.capacity THEN Spin_finish(charged) ELSE charged

\* target.hit(field, time, strength), by class; gs are the groups before
hit(o, gs, time, strength) ==
    CASE o.kind = "Soft" -> Soft_hit(o, time, strength)
      [] o.kind = "Loud" -> Loud_hit(o, time, strength)
      [] o.kind = "Incr" -> Incr_hit(o, gs[o.group], time, strength)
      [] o.kind = "Roll" -> Roll_hit(o, time, strength)
      [] o.kind = "Spin" -> Spin_hit(o, time, strength)

\* the groups after target.hit(field, time, strength)
groups_after_hit(o, gs, strength) ==
    IF o.kind = "Incr"
    THEN [gs EXCEPT ![o.group] = IncrGroup_hit(gs[o.group], strength)]
    ELSE gs

\* target.finish(field), by class
finish(o) ==
    CASE o.kind \in Oneshots -> OneshotTarget_finish(o, NoPerf)
      [] o.kind = "Roll" -> Roll_finish(o)
      [] o.kind = "Spin" -> Spin_finish(o)

is_finished(o) ==
    IF o.kind \in Oneshots THEN o.perf # NoPerf ELSE o.is_finished

OneshotTarget_score(o) ==
    IF o.perf # NoPerf THEN performances_scores[o.perf] ELSE 0

\* a plausible slip: the score of an overshot Roll not clamped at 0
Roll_score_unclamped(o) ==
    IF o.roll < o.number THEN o.roll * roll_rock_score
    ELSE (2 * o.number - o.roll) * roll_rock_score

Roll_score(o) ==
    IF o.roll < o.number THEN o.roll * roll_rock_score
    ELSE IF o.roll < 2 * o.number
         THEN (2 * o.number - o.roll) * roll_rock_score
         ELSE 0

\* the property Spin.score divides by self.capacity while unfinished
Spin_score_raises(o) ==
    ~o.is_finished /\ o.capacity = 0

\* a plausible slip: an incomplete Spin keeps its proportional score
Spin_score_proportional(o) ==
    (o.full_score * o.charge) \div o.capacity

\* Spin.score where it does not raise; int() of a quotient >= 0 is the floor
Spin_score(o) ==
    IF ~o.is_finished
    THEN (o.full_score * o.charge) \div o.capacity
    ELSE IF o.charge = o.capacity THEN o.full_score ELSE 0

\* reading target.score raises ZeroDivisionError
score_raises(o) ==
    o.kind = "Spin" /\ Spin_score_raises(o)

\* target.score, where reading it does not raise
score(o) ==
    CASE o.kind \in Oneshots -> OneshotTarget_score(o)
      [] o.kind = "Roll" -> Roll_score(o)
      [] o.kind = "Spin" -> Spin_score(o)

---------------------------------------------------------------------------
(* Specification SpecJudge: Performance.judge called once on arguments     *)
(* drawn from bounded sets.                                                *)

NoResult == "NoResult"
MaxErr == 7 * MaxTol + 1
JudgeTimes == {0, 100}
JudgeArgs ==
    UNION {{[tol |-> tol, time |-> t, hit_time |-> h, is_correct_key |-> k] :
                tol \in 1..MaxTol, k \in BOOLEAN,
                h \in {None} \cup {Some(t + e) : e \in -MaxErr..MaxErr}} :
           t \in JudgeTimes}

ObjIdle ==
    /\ events = <<>>
    /\ groups = <<>>
    /\ call = None
    /\ delivered = <<>>
    /\ nhits = <<>>

JudgeIdle ==
    /\ jin = None
    /\ jout = NoResult

BuildIdle ==
    /\ context = <<>>
    /\ built = <<>>

\* no audio (duration = 0.0) and no tick yet
LoopIdle ==
    /\ duration = 0
    /\ ltick = None

\* no mixer
MixerIdle ==
    /\ mixer = None
    /\ mutations = <<>>
    /\ effects = <<>>
    /\ summed = {}
    /\ ended = {}
    /\ mlog = <<>>

MoreIdle ==
    /\ tslicer = None
    /\ renderer = None
    /\ shifter = None
    /\ audio = None
    /\ drawers = None

CompIdle ==
    /\ composite = None
    /\ unchunker = None
    /\ line = None
    /\ console = None
    /\ recorder = None
    /\ MoreIdle

NodeIdle ==
    /\ detector = None
    /\ datanode = None
    /\ CompIdle

ExtraIdle ==
    /\ LoopIdle
    /\ MixerIdle
    /\ NodeIdle

FieldIdle ==
    /\ target_queue = <<>>
    /\ waiting_targets = <<>>
    /\ target = None
    /\ nodes = <<>>
    /\ step = None
    /\ now = 0
    /\ prepared = 0
    /\ ticked = FALSE
    /\ event_iter = 0
    /\ playfield = None
    /\ pc = "idle"

JudgeInit ==
    /\ jin \in JudgeArgs
    /\ jout = NoResult
    /\ BuildIdle
    /\ ExtraIdle
    /\ ObjIdle
    /\ FieldIdle

JudgeCall ==
    /\ jout = NoResult
    /\ jout' = judge(jin.tol, jin.time, jin.hit_time, jin.is_correct_key)
    /\ UNCHANGED <<jin, events, groups, call, delivered, nhits>>
    /\ UNCHANGED <<bvars, xvars, fvars>>

JudgeNext == JudgeCall

SpecJudge == JudgeInit /\ [][JudgeNext]_vars

---------------------------------------------------------------------------
(* Specification SpecTarget: hit and finish called directly, in any order, *)
(* on the targets of a small beatmap.                                      *)

Strengths == {2, 3, 5, 7, 12}
TravelTime == 100              \* speed = 1.0: two seconds
RockTime == 4                  \* time between two rocks of a Roll
SpinCapacities == {0, 15, 20, 100}

IncrCluster ==
    <<IncrObject(100, 1, TravelTime, 1, 1),
      IncrObject(125, 1, TravelTime, 1, 2),
      IncrObject(150, 1, TravelTime, 1, 3)>>

TargetSamples ==
    {<<Soft(100, tol, TravelTime)>> : tol \in 1..MaxTol}
    \cup {<<Loud(100, tol, TravelTime)>> : tol \in 1..MaxTol}
    \cup {<<Roll(100, 100 + n * RockTime, n, TravelTime)>> : n \in 0..MaxRocks}
    \cup {<<Spin(100, 100 + c, c, TravelTime)>> : c \in SpinCapacities}
    \cup {IncrCluster}

GroupsOf(es) ==
    IF es = IncrCluster THEN <<[threshold |-> 0, total |-> 3]>> ELSE <<>>

HitTimes(o) ==
    IF o.kind \in {"Soft", "Loud"}
    THEN {o.time + e : e \in -MaxErr..MaxErr}
    ELSE {o.time}

HitLimit(o) ==
    IF o.kind \in Oneshots THEN MaxOneshotHits ELSE MaxHits

TargetInit ==
    /\ events \in TargetSamples
    /\ groups = GroupsOf(events)
    /\ call = None
    /\ delivered = [g \in DOMAIN groups |-> {}]
    /\ nhits = [i \in DOMAIN events |-> 0]
    /\ JudgeIdle
    /\ BuildIdle
    /\ ExtraIdle
    /\ FieldIdle

\* target.hit(field, time, strength), with its history
DoHit(i, time, strength) ==
    /\ events' = [events EXCEPT ![i] = hit(events[i], groups, time, strength)]
    /\ groups' = groups_after_hit(events[i], groups, strength)
    /\ delivered' = IF events[i].kind = "Incr"
                    THEN [delivered EXCEPT ![events[i].group] = @ \cup {strength}]
                    ELSE delivered
    /\ nhits' = [nhits EXCEPT ![i] = @ + 1]

\* target.finish(field), with its history
DoFinish(i) ==
    /\ events' = [events EXCEPT ![i] = finish(events[i])]
    /\ UNCHANGED <<groups, delivered, nhits>>

CallHit ==
    \E i \in DOMAIN events :
        /\ nhits[i] < HitLimit(events[i])
        /\ \E time \in HitTimes(events[i]), strength \in Strengths :
            /\ DoHit(i, time, strength)
            /\ call' = Some([op |-> "hit", id |-> i, time |-> time,
                             strength |-> strength])
        /\ UNCHANGED <<jvars, bvars, xvars, fvars>>

CallFinish ==
    \E i \in DOMAIN events :
        /\ DoFinish(i)
        /\ call' = Some([op |-> "finish", id |-> i, time |-> 0, strength |-> 0])
        /\ UNCHANGED <<jvars, bvars, xvars, fvars>>

TargetNext == CallHit \/ CallFinish

SpecTarget == TargetInit /\ [][TargetNext]_vars

---------------------------------------------------------------------------
(* The data node around a target's _node generator (GeneratorDataNode).    *)
(* ended: the generator has returned or has been closed.                   *)

NewNode == [started |-> FALSE, stopped |-> FALSE, ended |-> FALSE]

\* GeneratorDataNode.__enter__: runs the generator to its first yield
node_enter(n) ==
    IF n.started THEN n ELSE [n EXCEPT !.started = TRUE]

\* GeneratorDataNode.__exit__() of a started node: generator.close()
node_exit(n) ==
    IF n.stopped THEN n ELSE [n EXCEPT !.stopped = TRUE, !.ended = TRUE]

\* generator.close() reaches the except GeneratorExit clause of Target._node
close_runs_handler(n) ==
    n.started /\ ~n.stopped /\ ~n.ended

\* Target._node on GeneratorExit: finish unless finished
node_close_target(o) ==
    IF ~is_finished(o) THEN finish(o) ELSE o

---------------------------------------------------------------------------
(* PlayField._target_handler.  An item of the queue is (target, start,     *)
(* duration); the target is named by the index of its event, which is also *)
(* the order of the add_target calls.                                      *)

Front(seq) == SubSeq(seq, 1, Len(seq) - 1)
Last(seq) == seq[Len(seq)]

\* list.sort(key=lambda item: item[1]) is stable: an item goes behind the
\* items whose start is not larger
RECURSIVE insert_by_start(_, _)
insert_by_start(seq, item) ==
    IF seq = <<>> \/ Last(seq).start <= item.start
    THEN Append(seq, item)
    ELSE Append(insert_by_start(Front(seq), item), Last(seq))

RECURSIVE sort_by_start(_)
sort_by_start(seq) ==
    IF seq = <<>> THEN <<>>
    ELSE insert_by_start(sort_by_start(Front(seq)), Last(seq))

\* lines 652-657: the queue is drained into waiting_targets, which is sorted
drain(waiting, queue) == sort_by_start(waiting \o queue)

\* a plausible slip: a due target replaces the active one (as _sight_handler
\* does with its drawers)
can_activate_over(h, time) ==
    /\ h.waiting # <<>>
    /\ Head(h.waiting).start <= time

\* line 659
can_activate(h, time) ==
    /\ h.target = None
    /\ h.waiting # <<>>
    /\ Head(h.waiting).start <= time

\* lines 660-661
activate(h) ==
    LET item == Head(h.waiting)
    IN  [h EXCEPT
            !.target = Some(item),
            !.waiting = Tail(h.waiting),
            !.nodes[item.node] = node_enter(@),
            !.ops = Append(@, [op |-> "enter", node |-> item.node,
                               start |-> item.start,
                               duration |-> item.duration,
                               left |-> {<<w.start, w.node>> :
                                            w \in {h.waiting[k] :
                                                k \in 2..Len(h.waiting)}}])]

\* a plausible slip: the window taken as closed at its end
is_over_late(h, time) ==
    /\ h.target # None
    /\ h.target[1].start + h.target[1].duration < time

\* line 663
is_over(h, time) ==
    /\ h.target # None
    /\ h.target[1].start + h.target[1].duration <= time

\* lines 664-665
close(h) ==
    LET n == h.target[1].node
    IN  [h EXCEPT
            !.target = None,
            !.nodes[n] = node_exit(@),
            !.events[n] = IF close_runs_handler(h.nodes[n])
                          THEN node_close_target(@) ELSE @,
            !.ops = Append(@, [op |-> "exit", node |-> n])]

\* a plausible slip: the target kept active after the knock that finished it
send_on(h, time, strength) ==
    LET n == h.target[1].node
        o == hit(h.events[n], h.groups, time, min(10, strength))
    IN  [h EXCEPT
            !.events[n] = o,
            !.groups = groups_after_hit(h.events[n], h.groups, min(10, strength)),
            !.delivered = IF h.events[n].kind = "Incr"
                          THEN [@ EXCEPT ![h.events[n].group] =
                                    @ \cup {min(10, strength)}]
                          ELSE @,
            !.nhits[n] = @ + 1,
            !.ops = Append(@, [op |-> "send", node |-> n, time |-> time,
                               strength |-> min(10, strength),
                               start |-> h.target[1].start,
                               duration |-> h.target[1].duration])]

\* lines 668-672: target.send((time, min(1.0, strength))); the generator
\* returns, and send raises StopIteration, when the target is finished
send(h, time, strength) ==
    LET n == h.target[1].node
        o == hit(h.events[n], h.groups, time, min(10, strength))
    IN  [h EXCEPT
            !.events[n] = o,
            !.groups = groups_after_hit(h.events[n], h.groups, min(10, strength)),
            !.delivered = IF h.events[n].kind = "Incr"
                          THEN [@ EXCEPT ![h.events[n].group] =
                                    @ \cup {min(10, strength)}]
                          ELSE @,
            !.nhits[n] = @ + 1,
            !.nodes[n].ended = is_finished(o),
            !.target = IF is_finished(o) THEN None ELSE @,
            !.ops = Append(@, [op |-> "send", node |-> n, time |-> time,
                               strength |-> min(10, strength),
                               start |-> h.target[1].start,
                               duration |-> h.target[1].duration])]

\* a plausible slip: the loop run again after a knock that finished the
\* target, as it is after a close
RECURSIVE dispatch_on(_, _, _, _)
dispatch_on(h, time, strength, detected) ==
    LET h1 == IF can_activate(h, time) THEN activate(h) ELSE h
    IN  IF is_over(h1, time)
        THEN dispatch_on(close(h1), time, strength, detected)
        ELSE IF h1.target # None /\ detected
             THEN LET h2 == send(h1, time, strength)
                  IN  IF h2.target = None
                      THEN dispatch_on(h2, time, strength, detected)
                      ELSE h2
             ELSE h1

\* lines 658-675: the loop body, from the activation to the next yield
RECURSIVE dispatch(_, _, _, _)
dispatch(h, time, strength, detected) ==
    LET h1 == IF can_activate(h, time) THEN activate(h) ELSE h
    IN  IF is_over(h1, time)
        THEN dispatch(close(h1), time, strength, detected)
        ELSE IF h1.target # None /\ detected
             THEN send(h1, time, strength)
             ELSE h1

\* _target_handler from one yield to the next, on the event
\* (time, strength, detected); time is already relative to start_time
HandleEvent(time, strength, detected) ==
    LET h0 == [waiting |-> drain(waiting_targets, target_queue),
               target |-> target, nodes |-> nodes, events |-> events,
               groups |-> groups, delivered |-> delivered, nhits |-> nhits,
               ops |-> <<>>]
        h == dispatch(h0, time, strength, detected)
    IN  /\ target_queue' = <<>>
        /\ waiting_targets' = h.waiting
        /\ target' = h.target
        /\ nodes' = h.nodes
        /\ events' = h.events
        /\ groups' = h.groups
        /\ delivered' = h.delivered
        /\ nhits' = h.nhits
        /\ step' = Some([time |-> time, strength |-> strength,
                         detected |-> detected,
                         before |-> target,
                         ops |-> h.ops])

---------------------------------------------------------------------------
(* KAIKOGame.  GameplaySettings are taken shorter than the defaults, in    *)
(* the model's time unit; the beatmap has no audio.  The displayed score   *)
(* and full_score are kept as multiples of 1/total_score: the model's      *)
(* get_score is total_score times the program's.  A progress is a pair     *)
(* <<finished, total>>.                                                    *)

leadin_time == 2
prepare_time == 1
audio_duration == 0            \* beatmap.audio is None

RECURSIVE insert_by_lifespan(_, _)
insert_by_lifespan(seq, e) ==
    IF seq = <<>> \/ Last(seq).lifespan[1] <= e.lifespan[1]
    THEN Append(seq, e)
    ELSE Append(insert_by_lifespan(Front(seq), e), Last(seq))

\* self.events.sort(key=lambda e: e.lifespan[0]); lifespan[0] is the first
\* component
RECURSIVE sort_by_lifespan(_)
sort_by_lifespan(seq) ==
    IF seq = <<>> THEN <<>>
    ELSE insert_by_lifespan(sort_by_lifespan(Front(seq)), Last(seq))

SetMin(S) == CHOOSE m \in S : \A x \in S : m <= x
SetMax(S) == CHOOSE m \in S : \A x \in S : x <= m

events_start_time(es) ==
    IF es = <<>> THEN 0
    ELSE SetMin({es[i].lifespan[1] - leadin_time : i \in DOMAIN es})

\* a plausible slip: the end of the events taken without the lead-in
events_end_time_bare(es) ==
    IF es = <<>> THEN 0
    ELSE SetMax({es[i].lifespan[2] : i \in DOMAIN es})

events_end_time(es) ==
    IF es = <<>> THEN 0
    ELSE SetMax({es[i].lifespan[2] + leadin_time : i \in DOMAIN es})

time_shift(es) == prepare_time + max(-events_start_time(es), 0)

RECURSIVE sum(_)
sum(seq) == IF seq = <<>> THEN 0 ELSE Head(seq) + sum(Tail(seq))

total_score(es) == sum([i \in DOMAIN es |-> es[i].full_score])

total_subjects(es) == Len(es)

get_full_score(es) ==
    sum([i \in DOMAIN es |->
            IF is_finished(es[i]) THEN es[i].full_score ELSE 0]) * 65536

get_score_raises(es) ==
    \E i \in DOMAIN es : score_raises(es[i])

get_score(es) ==
    sum([i \in DOMAIN es |-> score(es[i])]) * 65536

get_progress(es) ==
    IF total_subjects(es) = 0 THEN <<1, 1>>
    ELSE <<Cardinality({i \in DOMAIN es : is_finished(es[i])}),
           total_subjects(es)>>

\* lines 975-977 and 1018-1020
update_playfield(es) ==
    [full_score |-> get_full_score(es),
     score |-> get_score(es),
     progress |-> get_progress(es)]

\* Target.register: field.add_target(self._node(field), start=self.range[0],
\* duration=self.range[1]-self.range[0])
add_target_item(es, i) ==
    [node |-> i, start |-> es[i].range[1],
     duration |-> es[i].range[2] - es[i].range[1]]

\* lines 1014-1016: the events the tick at `time` registers, from index `from`
RECURSIVE registered_upto(_, _, _)
registered_upto(es, from, time) ==
    IF from = 0 \/ from > Len(es) THEN from
    ELSE IF es[from].lifespan[1] <= time + prepare_time
         THEN registered_upto(es, from + 1, time)
         ELSE from

\* next(events_iter, None) past the last event gives None (0)
iter_value(es, k) == IF k > Len(es) THEN 0 ELSE k

---------------------------------------------------------------------------
(* Specification Spec: the game loop and the detector's events on the      *)
(* playfield of a small beatmap.  The detector stamps its events 1 apart;  *)
(* a game tick carries the time at which it runs and ticks may be late.    *)

MaxPad == 1                    \* padding events seen by the handler
FastTravelTime == 2            \* a fast note: 1.0 / abs(0.5 * speed)
SlowTravelTime == 8
FieldStrengths == {3, 7, 12}
\* (strength, detected) of an event; one strength stands for the hops
\* without an onset
DetectorEvents == {<<st, TRUE>> : st \in FieldStrengths} \cup {<<3, FALSE>>}

Beatmaps ==
    {<<Loud(8, 1, SlowTravelTime), Soft(8, 1, SlowTravelTime)>>,
     <<Soft(8, 1, SlowTravelTime), Loud(6, 1, FastTravelTime)>>,
     <<Roll(6, 6 + 2 * RockTime, 2, SlowTravelTime),
       Soft(12, 1, FastTravelTime)>>,
     <<Spin(6, 8, 15, SlowTravelTime)>>,
     <<IncrObject(6, 1, SlowTravelTime, 1, 1),
       IncrObject(8, 1, SlowTravelTime, 1, 2)>>,
     <<Spin(6, 6, 0, SlowTravelTime)>>,
     <<>>}

BeatmapGroups(es) ==
    IF es # <<>> /\ es[1].kind = "Incr"
    THEN <<[threshold |-> 0, total |-> Len(es)]>>
    ELSE <<>>

Init ==
    /\ events \in Beatmaps
    /\ groups = BeatmapGroups(events)
    /\ call = None
    /\ delivered = [g \in DOMAIN groups |-> {}]
    /\ nhits = [i \in DOMAIN events |-> 0]
    /\ JudgeIdle
    /\ BuildIdle
    /\ ExtraIdle
    /\ target_queue = <<>>
    /\ waiting_targets = <<>>
    /\ target = None
    /\ nodes = [i \in DOMAIN events |-> NewNode]
    /\ step = None
    /\ now = 0
    /\ prepared = 0
    /\ ticked = FALSE
    /\ event_iter = 0
    /\ playfield = None
    /\ pc = "init"

\* KAIKOGame.connect up to its first yield (lines 961-1009)
Connect ==
    /\ pc = "init"
    /\ LET es == sort_by_lifespan(events)
       IN  /\ events' = es
           /\ IF total_score(es) = 0 \/ get_score_raises(es)
              THEN \* ZeroDivisionError at line 973 or in get_score
                   /\ pc' = "raised"
                   /\ UNCHANGED <<playfield, now, event_iter>>
              ELSE /\ pc' = "loop"
                   /\ playfield' = Some(update_playfield(es))
                   /\ now' = -time_shift(es)
                   /\ event_iter' = iter_value(es, 1)
    /\ UNCHANGED <<jvars, bvars, xvars, groups, call, delivered, nhits, target_queue,
                   waiting_targets, target, nodes, step, prepared, ticked>>

\* one iteration of the game loop (lines 1010-1024), at tick time `now`
Tick ==
    /\ pc = "loop"
    /\ ~ticked
    /\ ticked' = TRUE
    /\ IF max(events_end_time(events), audio_duration) <= now
       THEN /\ pc' = "done"
            /\ UNCHANGED <<target_queue, event_iter, playfield>>
       ELSE LET upto == registered_upto(events, event_iter, now)
                new == IF event_iter = 0 THEN <<>>
                       ELSE [k \in 1..(upto - event_iter) |->
                                add_target_item(events, event_iter + k - 1)]
            IN  /\ target_queue' = target_queue \o new
                /\ event_iter' = iter_value(events, upto)
                /\ IF get_score_raises(events)
                   THEN pc' = "raised" /\ UNCHANGED playfield
                   ELSE /\ pc' = "loop"
                        /\ playfield' = Some(update_playfield(events))
    /\ UNCHANGED <<jvars, bvars, xvars, ovars, waiting_targets, target, nodes, step, now,
                   prepared>>

\* the detector's padding events: KnockDetector._node sends them with the
\* time of its first hop, strength 0.0 and detected False
Pad ==
    /\ pc = "loop"
    /\ now = -time_shift(events)
    /\ prepared < MaxPad
    /\ prepared' = prepared + 1
    /\ HandleEvent(now, 0, FALSE)
    /\ UNCHANGED <<jvars, bvars, xvars, call, now, ticked, event_iter, playfield, pc>>

\* the detector's event of one hop
Knock ==
    /\ pc = "loop"
    /\ now <= events_end_time(events)
    /\ \E e \in DetectorEvents : HandleEvent(now, e[1], e[2])
    /\ now' = now + 1
    /\ ticked' = FALSE
    /\ UNCHANGED <<jvars, bvars, xvars, call, prepared, event_iter, playfield, pc>>

Next == Connect \/ Tick \/ Pad \/ Knock

Spec == Init /\ [][Next]_vars

---------------------------------------------------------------------------
(* Specification SpecLoop: the game loop alone, under a ticker that yields  *)
(* increasing times at most MaxGap apart (a low tickrate or a late        *)
(* ticker), with or without audio.  One                                     *)
(* detector event may reach the playfield between two ticks.                *)

MaxGap == 8
AudioDurations == {0, 22}
LoopBeatmaps == Beatmaps \cup {<<Loud(6, 1, FastTravelTime)>>}

LoopInit ==
    /\ events \in LoopBeatmaps
    /\ groups = BeatmapGroups(events)
    /\ call = None
    /\ delivered = [g \in DOMAIN groups |-> {}]
    /\ nhits = [i \in DOMAIN events |-> 0]
    /\ JudgeIdle
    /\ BuildIdle
    /\ duration \in AudioDurations
    /\ ltick = None
    /\ MixerIdle
    /\ NodeIdle
    /\ target_queue = <<>>
    /\ waiting_targets = <<>>
    /\ target = None
    /\ nodes = [i \in DOMAIN events |-> NewNode]
    /\ step = None
    /\ now = 0
    /\ prepared = 0
    /\ ticked = FALSE
    /\ event_iter = 0
    /\ playfield = None
    /\ pc = "init"

\* one iteration of `for time in timer` (lines 1010-1024)
GameTick(time) ==
    /\ pc = "loop"
    /\ now' = time
    /\ ltick' = Some([time |-> time,
                      prev |-> IF ltick = None THEN None
                               ELSE Some(ltick[1].time),
                      iter |-> event_iter,
                      shown |-> playfield])
    /\ IF max(events_end_time(events), duration) <= time
       THEN /\ pc' = "done"
            /\ UNCHANGED <<target_queue, event_iter, playfield>>
       ELSE LET upto == registered_upto(events, event_iter, time)
                new == IF event_iter = 0 THEN <<>>
                       ELSE [k \in 1..(upto - event_iter) |->
                                add_target_item(events, event_iter + k - 1)]
            IN  /\ target_queue' = target_queue \o new
                /\ event_iter' = iter_value(events, upto)
                /\ IF get_score_raises(events)
                   THEN pc' = "raised" /\ UNCHANGED playfield
                   ELSE /\ pc' = "loop"
                        /\ playfield' = Some(update_playfield(events))

\* the ticker yields the next time
LoopTick ==
    /\ \E gap \in 0..MaxGap :
        /\ IF ltick = None THEN TRUE ELSE gap >= 1
        /\ GameTick(now + gap)
    /\ UNCHANGED <<jvars, bvars, mvars, dvars, ovars, duration, waiting_targets,
                   target, nodes, step, prepared, ticked>>

\* the first detector event reaches the handler after a tick
LoopKnock ==
    /\ pc = "loop"
    /\ ltick # None
    /\ step = None
    /\ \E st \in FieldStrengths : HandleEvent(now, st, TRUE)
    /\ UNCHANGED <<jvars, bvars, xvars, call, now, prepared, ticked,
                   event_iter, playfield, pc>>

LoopNext == Connect \/ LoopTick \/ LoopKnock

SpecLoop == LoopInit /\ [][LoopNext]_vars

\* the ticker goes on yielding times
SpecLoopFair == SpecLoop /\ WF_vars(LoopTick)

---------------------------------------------------------------------------
(* AudioMixer.  Times are counted in half samples (1/(2*samplerate)), so    *)
(* that (start_time - time) * samplerate is x2 / 2; positions and offsets   *)
(* are counted in samples.  The mixer's delay is 0.0.  A source is          *)
(* dn.attach(signal): it sums its next samples into the data it is sent and *)
(* ends after its last sample; Endless is a node that never ends.           *)

Endless == -1

\* round(x2 / 2): Python rounds a half to the even neighbour
round(x2) ==
    IF x2 % 2 = 0 THEN x2 \div 2
    ELSE LET k == (x2 - 1) \div 2
         IN  IF k % 2 = 0 THEN k ELSE k + 1

\* the node given to add_effect, not yet entered; start is the time argument
NewEffect(start, length) ==
    [start |-> start, len |-> length, pos |-> 0, phase |-> "new",
     offset |-> 0, first |-> None, discarded |-> 0]

\* the source is sent n samples: it ends if it has none left, otherwise it
\* sums its next samples into the first places of the data
attach_ended(e) == e.len # Endless /\ e.pos >= e.len

attach_adds(e, n) ==
    {<<i, e.pos + i>> : i \in {j \in 0..(n - 1) :
                                  e.len = Endless \/ e.pos + j < e.len}}

attach_send(e, n) ==
    [e EXCEPT !.pos = IF e.len = Endless THEN e.pos + n
                      ELSE min(e.len, e.pos + n)]

\* lines 59-63 with offset < 0: `offset -= length` takes offset further from
\* 0, so the loop sends dummies until the source ends, or for ever
shift_skip_source(e, offset) ==
    IF e.len = Endless
    THEN [node |-> [e EXCEPT !.phase = "hung", !.offset = offset],
          adds |-> {}, ended |-> FALSE, hung |-> TRUE]
    ELSE [node |-> [e EXCEPT !.phase = "ended", !.offset = offset,
                             !.discarded = e.len - e.pos, !.pos = e.len],
          adds |-> {}, ended |-> TRUE, hung |-> FALSE]

\* lines 76-77: the data goes to the source as it is
shift_run(e, buffer_length) ==
    IF attach_ended(e)
    THEN [node |-> [e EXCEPT !.phase = "ended"],
          adds |-> {}, ended |-> TRUE, hung |-> FALSE]
    ELSE [node |-> [attach_send(e, buffer_length) EXCEPT !.phase = "run"],
          adds |-> attach_adds(e, buffer_length),
          ended |-> FALSE, hung |-> FALSE]

\* lines 65-74: one buffer while 0 < offset
shift_skip_output(e, buffer_length) ==
    IF buffer_length < e.offset
    THEN [node |-> [e EXCEPT !.phase = "skip",
                             !.offset = e.offset - buffer_length],
          adds |-> {}, ended |-> FALSE, hung |-> FALSE]
    ELSE IF attach_ended(e)
    THEN [node |-> [e EXCEPT !.phase = "ended"],
          adds |-> {}, ended |-> TRUE, hung |-> FALSE]
    ELSE LET rest == buffer_length - e.offset
         IN  [node |-> [attach_send(e, rest) EXCEPT !.phase = "run",
                                                    !.offset = 0],
              adds |-> {<<e.offset + a[1], a[2]>> : a \in attach_adds(e, rest)},
              ended |-> FALSE, hung |-> FALSE]

\* AudioMixer._shift (or the bare node if add_effect got no time) on the
\* buffer that starts at sample `time`: the node after it, the pairs
\* (place in the buffer, source sample) summed, whether the node has ended and
\* whether it never returns
shift_send(e, index, time, buffer_length) ==
    IF e.phase = "new" /\ e.start # None
    THEN LET offset == round(e.start[1] - 2 * time)
             e1 == [e EXCEPT !.first = Some([index |-> index, offset |-> offset]),
                             !.offset = offset]
         IN  IF offset < 0 THEN shift_skip_source(e1, offset)
             ELSE IF 0 < offset THEN shift_skip_output(e1, buffer_length)
             ELSE shift_run(e1, buffer_length)
    ELSE IF e.phase = "skip" THEN shift_skip_output(e, buffer_length)
    ELSE shift_run(e, buffer_length)

\* the scheduler of dn.schedule(self.mutations): its children are kept in the
\* order in which they are run, ascending zindex and then insertion
sched_remove(children, key) ==
    SelectSeq(children, LAMBDA c : c.key # key)

RECURSIVE sched_insert(_, _)
sched_insert(children, child) ==
    IF children = <<>> \/ Last(children).zindex <= child.zindex
    THEN Append(children, child)
    ELSE Append(sched_insert(Front(children), child), Last(children))

\* one mutation (key, node, zindex) taken from the queue: Remove(key) if node
\* is None, Insert(key, node, zindex) otherwise
sched_apply(children, mu) ==
    IF mu.node = None THEN sched_remove(children, mu.key)
    ELSE sched_insert(sched_remove(children, mu.key),
                      [key |-> mu.key, zindex |-> mu.zindex, node |-> mu.node[1]])

\* the children are sent the buffer one after another; a child that ends is
\* removed, a child that never returns stops the step
RECURSIVE sched_send(_, _, _, _)
sched_send(children, index, time, buffer_length) ==
    IF children = <<>>
    THEN [children |-> <<>>, adds |-> {}, gone |-> {}, hung |-> FALSE]
    ELSE LET c == Head(children)
             r == shift_send(c.node, index, time, buffer_length)
             here == {[key |-> c.key, at |-> time + a[1], src |-> a[2]] :
                          a \in r.adds}
             c1 == [c EXCEPT !.node = r.node]
         IN  IF r.hung
             THEN [children |-> <<c1>> \o Tail(children), adds |-> {},
                   gone |-> {}, hung |-> TRUE]
             ELSE LET rest == sched_send(Tail(children), index, time,
                                         buffer_length)
                  IN  [children |-> (IF r.ended THEN <<>> ELSE <<c1>>)
                                        \o rest.children,
                       adds |-> here \cup rest.adds,
                       gone |-> (IF r.ended THEN {c1} ELSE {}) \cup rest.gone,
                       hung |-> rest.hung]

\* a plausible slip: the newest mutation put in front of the queue
put_first(queue, mu) == <<mu>> \o queue

\* self.mutations.put(...)
put(queue, mu) == Append(queue, mu)

\* a plausible slip: remove_effect putting a node under the key
remove_effect_insert(key) ==
    [key |-> key, node |-> Some(NewEffect(None, Endless)), zindex |-> 0]

\* AudioMixer.add_effect(node, time, zindex) with key = None: the mutation
add_effect(key, node, zindex) ==
    [key |-> key, node |-> Some(node), zindex |-> zindex]

\* AudioMixer.remove_effect(key): the mutation
remove_effect(key) ==
    [key |-> key, node |-> None, zindex |-> 0]

---------------------------------------------------------------------------
(* Specification SpecMixer: threads add and remove effects while the       *)
(* output callback sends the mixer's node buffer after buffer.              *)

MaxBuffers == 3
\* the keys that add_effect hands out, one after another
MixerKeys == {1, 2}
MaxRemoves == 2
BufferLengths == {2, 3}
\* start times in half samples, and no start time
StartTimes == {None, Some(4), Some(9)}
SourceLengths == {3, Endless}

MixerInit ==
    /\ \E bl \in BufferLengths :
        mixer = Some([buffer_length |-> bl, index |-> 0, pc |-> "yield",
                      adds |-> 0, removes |-> 0])
    /\ mutations = <<>>
    /\ effects = <<>>
    /\ summed = {}
    /\ ended = {}
    /\ mlog = <<>>
    /\ ObjIdle
    /\ JudgeIdle
    /\ BuildIdle
    /\ LoopIdle
    /\ NodeIdle
    /\ FieldIdle

\* the history kept with a mutation: its number and when it was put
Submit(mu) ==
    mu @@ [id |-> mixer[1].adds + mixer[1].removes + 1,
           at |-> mixer[1].index]

\* some thread calls add_effect; the key is a new one
AddEffect ==
    /\ mixer[1].adds + 1 \in MixerKeys
    /\ \E start \in StartTimes, length \in SourceLengths :
        mutations' = put(mutations,
                         Submit(add_effect(mixer[1].adds + 1,
                                           NewEffect(start, length), 0)))
    /\ mixer' = Some([mixer[1] EXCEPT !.adds = @ + 1])
    /\ UNCHANGED <<effects, summed, ended, mlog>>
    /\ UNCHANGED <<jvars, bvars, lvars, dvars, ovars, fvars>>

\* some thread calls remove_effect
RemoveEffect ==
    /\ mixer[1].removes < MaxRemoves
    /\ \E key \in MixerKeys :
        mutations' = put(mutations, Submit(remove_effect(key)))
    /\ mixer' = Some([mixer[1] EXCEPT !.removes = @ + 1])
    /\ UNCHANGED <<effects, summed, ended, mlog>>
    /\ UNCHANGED <<jvars, bvars, lvars, dvars, ovars, fvars>>

\* the output callback sends the node: lines 33-35 up to the scheduler
MixerSend ==
    /\ mixer[1].pc = "yield"
    /\ mixer[1].index < MaxBuffers
    /\ mixer' = Some([mixer[1] EXCEPT !.pc = "drain"])
    /\ UNCHANGED <<mutations, effects, summed, ended, mlog>>
    /\ UNCHANGED <<jvars, bvars, lvars, dvars, ovars, fvars>>

\* the scheduler takes one pending mutation
MixerDrain ==
    /\ mixer[1].pc = "drain"
    /\ mutations # <<>>
    /\ effects' = sched_apply(effects, Head(mutations))
    /\ mutations' = Tail(mutations)
    /\ mlog' = Append(mlog, [id |-> Head(mutations).id,
                             key |-> Head(mutations).key,
                             insert |-> Head(mutations).node # None,
                             live |-> \E i \in 1..Len(effects) :
                                 effects[i].key = Head(mutations).key,
                             at |-> Head(mutations).at,
                             index |-> mixer[1].index])
    /\ UNCHANGED <<mixer, summed, ended>>
    /\ UNCHANGED <<jvars, bvars, lvars, dvars, ovars, fvars>>

\* no mutation is pending: the children get the buffer, the node yields it
MixerRun ==
    /\ mixer[1].pc = "drain"
    /\ mutations = <<>>
    /\ LET bl == mixer[1].buffer_length
           r == sched_send(effects, mixer[1].index, mixer[1].index * bl, bl)
       IN  /\ effects' = r.children
           /\ summed' = summed \cup r.adds
           /\ ended' = ended \cup r.gone
           /\ mixer' = IF r.hung THEN Some([mixer[1] EXCEPT !.pc = "hung"])
                       ELSE Some([mixer[1] EXCEPT !.pc = "yield",
                                                  !.index = @ + 1])
    /\ UNCHANGED <<mutations, mlog>>
    /\ UNCHANGED <<jvars, bvars, lvars, dvars, ovars, fvars>>

MixerNext ==
    AddEffect \/ RemoveEffect \/ MixerSend \/ MixerDrain \/ MixerRun

SpecMixer == MixerInit /\ [][MixerNext]_vars

---------------------------------------------------------------------------
(* Specification SpecDetector: KnockDetector._node is sent the input hop   *)
(* after hop.  Time is counted in hops (hop_length / samplerate); the onset *)
(* strength of a hop, what onset.send(data) returns, is the input.          *)

MaxHops == 6
PreHops == {0, 1}
PostHops == {0, 2}
Waits == {0, 2}
Deltas == {0, 1}
Energies == {1, 2}
Delays == {1}
OnsetStrengths == {0, 2, 4}

\* the largest and the sum of the values of a slice buffer[from:to] (0-based,
\* `to` excluded)
RECURSIVE SliceMax(_, _, _)
SliceMax(buffer, from, to) ==
    IF to - from = 1 THEN buffer[from + 1].val
    ELSE LET rest == SliceMax(buffer, from + 1, to)
         IN  IF buffer[from + 1].val >= rest THEN buffer[from + 1].val ELSE rest

RECURSIVE SliceSum(_, _, _)
SliceSum(buffer, from, to) ==
    IF to = from THEN 0
    ELSE buffer[from + 1].val + SliceSum(buffer, from + 1, to)

Max2(a, b) == IF a >= b THEN a ELSE b

\* pick_peak up to its first yield; a value of the buffer is kept with the
\* number of the send that brought it, -1 for the zeros it starts with
pick_peak(pre_max, post_max, pre_avg, post_avg, wait, delta) ==
    [pre_max |-> pre_max, post_max |-> post_max, pre_avg |-> pre_avg,
     post_avg |-> post_avg, wait |-> wait, delta |-> delta,
     center |-> Max2(pre_max, pre_avg),
     delay |-> Max2(post_max, post_avg),
     buffer |-> [i \in 1..(Max2(pre_max, pre_avg) + Max2(post_max, post_avg) + 1)
                    |-> [hop |-> -1, val |-> 0]],
     index |-> -Max2(post_max, post_avg),
     prev_index |-> -wait]

\* a plausible slip: the newest value judged instead of the centre
pick_center_last(p, buffer) == buffer[Len(buffer)]

\* strength = buffer[center]
pick_center(p, buffer) == buffer[p.center + 1]

\* picker.send(y): the value is put last, the centre is judged, the buffer
\* moves on; mean + delta is compared over the sum
pick_send(p, y) ==
    LET buffer == [p.buffer EXCEPT ![Len(p.buffer)] = y]
        index == p.index + 1
        strength == pick_center(p, buffer).val
        n == p.pre_avg + p.post_avg + 1
        detected ==
            /\ index > p.prev_index + p.wait
            /\ strength = SliceMax(buffer, p.center - p.pre_max,
                                   p.center + p.post_max + 1)
            /\ strength * n >= SliceSum(buffer, p.center - p.pre_avg,
                                        p.center + p.post_avg + 1)
                                   + p.delta * n
    IN  [picker |-> [p EXCEPT !.buffer = Tail(buffer) \o <<y>>,
                              !.index = index,
                              !.prev_index = IF detected THEN index ELSE @],
         detected |-> detected,
         hop |-> pick_center(p, buffer).hop]

\* KnockDetector._node up to its first yield
DetectorInit ==
    /\ \E pre_max, pre_avg \in PreHops, post_max, post_avg \in PostHops,
          wait \in Waits, delta \in Deltas, energy \in Energies,
          delay \in Delays :
        detector = Some(
            [delay |-> delay, energy |-> energy,
             prepare |-> Max2(post_max, post_avg),
             picker |-> pick_peak(pre_max, post_max, pre_avg, post_avg,
                                  wait, delta),
             buffer |-> [i \in 1..Max2(post_max, post_avg) |->
                            [time |-> delay, strength |-> 0,
                             detected |-> FALSE]],
             index |-> 0,
             onsets |-> <<>>, judged |-> <<>>, sent |-> <<>>])
    /\ datanode = None
    /\ CompIdle
    /\ ObjIdle
    /\ JudgeIdle
    /\ BuildIdle
    /\ LoopIdle
    /\ MixerIdle
    /\ FieldIdle

\* one turn of the loop of _node: the node is sent the data of a hop, whose
\* onset strength is `onset`; what sched.send is given goes to the listeners
DetectorSend ==
    /\ detector # None
    /\ detector[1].index < MaxHops
    /\ \E onset \in OnsetStrengths :
        LET d == detector[1]
            r == pick_send(d.picker, [hop |-> d.index, val |-> onset])
            time == d.index + d.delay
            strength == onset \div d.energy
            buffer == Append(d.buffer, [time |-> time, strength |-> strength,
                                        detected |-> r.detected])
        IN  detector' = Some(
                [d EXCEPT !.picker = r.picker,
                          !.buffer = Tail(buffer),
                          !.index = @ + 1,
                          !.onsets = Append(@, onset),
                          !.judged = Append(@, [hop |-> r.hop,
                                                detected |-> r.detected]),
                          !.sent = Append(@, Head(buffer))])
    /\ UNCHANGED <<jvars, bvars, lvars, mvars, datanode, cvars, ovars, fvars>>

DetectorNext == DetectorSend

SpecDetector == DetectorInit /\ [][DetectorNext]_vars

---------------------------------------------------------------------------
(* Specification SpecNode: a GeneratorDataNode is entered, sent values and *)
(* exited in any order.  Its generator is any generator: resumed, it may    *)
(* yield, return or raise.                                                  *)

MaxCalls == 5
\* what a resumed generator may do
Resumed == {"yield", "return", "raise"}
\* what a generator thrown an exception may do: raise it again, return,
\* raise another, or yield
Thrown == {"reraise", "return", "raise", "yield"}
\* __exit__'s argument `type`: None, or an exception class
ExitTypes == {None, Some("Exception")}

\* GeneratorDataNode.__init__
GeneratorDataNode ==
    [generator |-> "created", started |-> FALSE, stopped |-> FALSE]

\* generator.send(value) and next(generator): the generator after it, what
\* comes out, and whether its code has run
generator_send(generator, does) ==
    IF generator = "finished"
    THEN [generator |-> "finished", out |-> "StopIteration", ran |-> FALSE]
    ELSE CASE does = "yield" ->
                [generator |-> "suspended", out |-> "value", ran |-> TRUE]
           [] does = "return" ->
                [generator |-> "finished", out |-> "StopIteration", ran |-> TRUE]
           [] OTHER ->
                [generator |-> "finished", out |-> "raised", ran |-> TRUE]

\* generator.throw(type, value, traceback)
generator_throw(generator, does) ==
    IF generator # "suspended"
    THEN [generator |-> "finished", out |-> "value raised"]
    ELSE CASE does = "reraise" -> [generator |-> "finished", out |-> "value raised"]
           [] does = "return" -> [generator |-> "finished", out |-> "StopIteration"]
           [] does = "raise" -> [generator |-> "finished", out |-> "raised"]
           [] OTHER -> [generator |-> "suspended", out |-> "value"]

\* a plausible slip: a node that is stopped is not told from a running one
is_stopped_never(node) == FALSE

\* `if self.stopped:`
is_stopped(node) == node.stopped

\* GeneratorDataNode.send: the node after it, the result, and whether the
\* generator was resumed
datanode_send(node, does) ==
    IF ~node.started
    THEN [node |-> node, result |-> "RuntimeError", touched |-> FALSE,
          released |-> FALSE, ran |-> FALSE]
    ELSE IF is_stopped(node)
    THEN [node |-> node, result |-> "RuntimeError", touched |-> FALSE,
          released |-> FALSE, ran |-> FALSE]
    ELSE LET g == generator_send(node.generator, does)
         IN  [node |-> [node EXCEPT !.generator = g.generator],
              result |-> g.out, touched |-> TRUE, released |-> FALSE,
              ran |-> g.ran]

\* GeneratorDataNode.__enter__
datanode_enter(node, does) ==
    IF node.started
    THEN [node |-> node, result |-> "self", touched |-> FALSE,
          released |-> FALSE, ran |-> FALSE]
    ELSE LET g == generator_send(node.generator, does)
         IN  [node |-> [node EXCEPT !.started = TRUE,
                                    !.generator = g.generator],
              result |-> CASE g.out = "value" -> "self"
                           [] g.out = "StopIteration" -> "RuntimeError"
                           [] OTHER -> "raised",
              touched |-> TRUE, released |-> FALSE, ran |-> g.ran]

\* GeneratorDataNode.__exit__(type, value, traceback)
datanode_exit(node, type, does) ==
    IF ~node.started
    THEN [node |-> node, result |-> "RuntimeError", touched |-> FALSE,
          released |-> FALSE, ran |-> FALSE]
    ELSE IF is_stopped(node)
    THEN [node |-> node, result |-> "False", touched |-> FALSE,
          released |-> FALSE, ran |-> FALSE]
    ELSE IF type = None
    THEN [node |-> [node EXCEPT !.stopped = TRUE, !.generator = "finished"],
          result |-> "False", touched |-> TRUE, released |-> TRUE,
          ran |-> node.generator = "suspended"]
    ELSE LET g == generator_throw(node.generator, does)
         IN  [node |-> [node EXCEPT !.stopped = TRUE,
                                    !.generator = g.generator],
              result |-> CASE g.out = "value raised" -> "False"
                           [] g.out = "StopIteration" -> "True"
                           [] g.out = "raised" -> "raised"
                           [] OTHER -> "RuntimeError",
              touched |-> TRUE, released |-> TRUE,
              ran |-> node.generator = "suspended"]

NodeInit ==
    /\ datanode = Some([node |-> GeneratorDataNode, log |-> <<>>])
    /\ detector = None
    /\ CompIdle
    /\ ObjIdle
    /\ JudgeIdle
    /\ BuildIdle
    /\ LoopIdle
    /\ MixerIdle
    /\ FieldIdle

\* the history of a call: the operation, the node before it, and what the
\* call did
Called(op, arg, r) ==
    Some([node |-> r.node,
          log |-> Append(datanode[1].log,
                         [op |-> op, arg |-> arg,
                          started |-> datanode[1].node.started,
                          stopped |-> datanode[1].node.stopped,
                          result |-> r.result, touched |-> r.touched,
                          released |-> r.released, ran |-> r.ran])])

NodeEnter ==
    /\ datanode # None
    /\ Len(datanode[1].log) < MaxCalls
    /\ \E does \in Resumed :
        datanode' = Called("enter", None, datanode_enter(datanode[1].node, does))
    /\ UNCHANGED <<jvars, bvars, lvars, mvars, detector, cvars, ovars, fvars>>

NodeSend ==
    /\ datanode # None
    /\ Len(datanode[1].log) < MaxCalls
    /\ \E does \in Resumed :
        datanode' = Called("send", None, datanode_send(datanode[1].node, does))
    /\ UNCHANGED <<jvars, bvars, lvars, mvars, detector, cvars, ovars, fvars>>

NodeExit ==
    /\ datanode # None
    /\ Len(datanode[1].log) < MaxCalls
    /\ \E type \in ExitTypes, does \in Thrown :
        datanode' = Called("exit", type,
                           datanode_exit(datanode[1].node, type, does))
    /\ UNCHANGED <<jvars, bvars, lvars, mvars, detector, cvars, ovars, fvars>>

NodeNext == NodeEnter \/ NodeSend \/ NodeExit

SpecNode == NodeInit /\ [][NodeNext]_vars

---------------------------------------------------------------------------
(* What every specification of a single component below leaves alone.     *)

rest == <<jvars, bvars, lvars, mvars, detector, datanode, ovars, fvars, evars>>

RestIdle ==
    /\ ObjIdle
    /\ JudgeIdle
    /\ BuildIdle
    /\ LoopIdle
    /\ MixerIdle
    /\ FieldIdle
    /\ detector = None
    /\ datanode = None
    /\ MoreIdle

\* the same for the specifications of tslice, the renderer, Shift, the
\* streams and the drawers
others == <<jvars, bvars, lvars, mvars, detector, datanode, ovars, fvars,
            composite, unchunker, line, console, recorder>>

OthersIdle ==
    /\ ObjIdle
    /\ JudgeIdle
    /\ BuildIdle
    /\ LoopIdle
    /\ MixerIdle
    /\ FieldIdle
    /\ detector = None
    /\ datanode = None
    /\ composite = None
    /\ unchunker = None
    /\ line = None
    /\ console = None
    /\ recorder = None

---------------------------------------------------------------------------
(* Specification SpecComposite: a pipe, pair or chain of GeneratorDataNode *)
(* children is entered, sent data and exited.  The children are any        *)
(* generators.  An exception is known by its kind: "GeneratorExit",        *)
(* "StopIteration", "Error" (raised by a child's code in a step or at its   *)
(* start) and "ExitError" (raised by a child's __exit__).                   *)

MaxCompositeCalls == 3
CompositeKinds == {"pipe", "pair", "chain"}
CompositeSizes == {2, 3}

\* a call made on a child, for the history
ChildCall(i, op, r) ==
    [child |-> i, op |-> op, result |-> r.result, released |-> r.released]

\* a plausible slip: the children exited in the order they were entered
RECURSIVE stack_exit_forward(_, _, _, _, _)
stack_exit_forward(children, k, exc, does, log) ==
    IF k = 0 THEN [children |-> children, exc |-> exc, log |-> log]
    ELSE LET i == Len(children) - k + 1
             r == datanode_exit(children[i],
                                IF exc = None THEN None ELSE Some(exc[1]),
                                does[i])
             exc1 == CASE r.result = "True" -> None
                       [] r.result \in {"raised", "RuntimeError"} ->
                            Some("ExitError")
                       [] OTHER -> exc
         IN  stack_exit_forward([children EXCEPT ![i] = r.node], k - 1, exc1,
                                does, Append(log, ChildCall(i, "exit", r)))

\* ExitStack.__exit__(*exc_details) with the children 1..k on the stack: the
\* last entered is exited first; a child's __exit__ that returns True
\* suppresses the exception, one that raises replaces it, and the others are
\* exited all the same
RECURSIVE stack_exit(_, _, _, _, _)
stack_exit(children, k, exc, does, log) ==
    IF k = 0 THEN [children |-> children, exc |-> exc, log |-> log]
    ELSE LET r == datanode_exit(children[k],
                                IF exc = None THEN None ELSE Some(exc[1]),
                                does[k])
             exc1 == CASE r.result = "True" -> None
                       [] r.result \in {"raised", "RuntimeError"} ->
                            Some("ExitError")
                       [] OTHER -> exc
         IN  stack_exit([children EXCEPT ![k] = r.node], k - 1, exc1, does,
                        Append(log, ChildCall(k, "exit", r)))

\* `for node in nodes: stack.enter_context(node)` from child i on
RECURSIVE enter_context(_, _, _, _)
enter_context(children, i, does, log) ==
    IF i > Len(children)
    THEN [children |-> children, entered |-> Len(children), exc |-> None,
          log |-> log]
    ELSE LET r == datanode_enter(children[i], does[i])
             log1 == Append(log, ChildCall(i, "enter", r))
             children1 == [children EXCEPT ![i] = r.node]
         IN  IF r.result = "self"
             THEN enter_context(children1, i + 1, does, log1)
             ELSE [children |-> children1, entered |-> i - 1,
                   exc |-> Some("Error"), log |-> log1]

\* what a child's send raised, as an exception
send_exc(result) ==
    IF result = "StopIteration" THEN Some("StopIteration") ELSE Some("Error")

\* pipe and pair: `for node in nodes: data = node.send(data)` from child i on
RECURSIVE send_each(_, _, _, _)
send_each(children, i, does, log) ==
    IF i > Len(children)
    THEN [children |-> children, exc |-> None, log |-> log]
    ELSE LET r == datanode_send(children[i], does[i])
             log1 == Append(log, ChildCall(i, "send", r))
             children1 == [children EXCEPT ![i] = r.node]
         IN  IF r.result = "value"
             THEN send_each(children1, i + 1, does, log1)
             ELSE [children |-> children1, exc |-> send_exc(r.result),
                   log |-> log1]

\* a plausible slip: the child after one that ended is sent the next data
send_chain_later(children, i, does, log) ==
    LET r == datanode_send(children[i], does[i])
        log1 == Append(log, ChildCall(i, "send", r))
        children1 == [children EXCEPT ![i] = r.node]
    IN  CASE r.result = "value" ->
               [children |-> children1, current |-> i, left |-> FALSE,
                exc |-> None, log |-> log1]
          [] r.result = "StopIteration" ->
               [children |-> children1, current |-> i + 1,
                left |-> (i = Len(children)), exc |-> None, log |-> log1]
          [] OTHER ->
               [children |-> children1, current |-> i, left |-> FALSE,
                exc |-> Some("Error"), log |-> log1]

\* chain: the current child is sent the data; StopIteration is suppressed and
\* the next child is sent it; after the last child the loop is left
RECURSIVE send_chain(_, _, _, _)
send_chain(children, i, does, log) ==
    IF i > Len(children)
    THEN [children |-> children, current |-> i, left |-> TRUE, exc |-> None,
          log |-> log]
    ELSE LET r == datanode_send(children[i], does[i])
             log1 == Append(log, ChildCall(i, "send", r))
             children1 == [children EXCEPT ![i] = r.node]
         IN  CASE r.result = "value" ->
                    [children |-> children1, current |-> i, left |-> FALSE,
                     exc |-> None, log |-> log1]
               [] r.result = "StopIteration" ->
                    send_chain(children1, i + 1, does, log1)
               [] OTHER ->
                    [children |-> children1, current |-> i, left |-> FALSE,
                     exc |-> Some("Error"), log |-> log1]

\* the generator of the composite resumed by next(): the children are
\* entered; if one fails, the ones entered are exited and the generator ends
composite_next(c, does, undo) ==
    LET e == enter_context(c.children, 1, does, c.log)
    IN  IF e.exc = None
        THEN [c EXCEPT !.children = e.children, !.log = e.log,
                       !.generator = "suspended", !.out = "value"]
        ELSE LET x == stack_exit(e.children, e.entered, e.exc, undo, e.log)
             IN  [c EXCEPT !.children = x.children, !.log = x.log,
                           !.generator = "finished",
                           !.out = IF x.exc = None THEN "StopIteration"
                                   ELSE "raised"]

\* the generator resumed by send(data): one turn of its loop
composite_send(c, does, undo) ==
    IF c.generator # "suspended" THEN [c EXCEPT !.out = "StopIteration"]
    ELSE IF c.kind = "chain"
    THEN LET r == send_chain(c.children, c.current, does, c.log)
         IN  IF r.exc = None /\ ~r.left
             THEN [c EXCEPT !.children = r.children, !.log = r.log,
                            !.current = r.current, !.out = "value"]
             ELSE LET x == stack_exit(r.children, Len(r.children), r.exc,
                                      undo, r.log)
                  IN  [c EXCEPT !.children = x.children, !.log = x.log,
                                !.current = r.current,
                                !.generator = "finished",
                                !.out = IF x.exc = None THEN "StopIteration"
                                        ELSE "raised"]
    ELSE LET r == send_each(c.children, 1, does, c.log)
         IN  IF r.exc = None
             THEN [c EXCEPT !.children = r.children, !.log = r.log,
                            !.out = "value"]
             ELSE LET x == stack_exit(r.children, Len(r.children), r.exc,
                                      undo, r.log)
                  IN  [c EXCEPT !.children = x.children, !.log = x.log,
                                !.generator = "finished",
                                !.out = IF x.exc = None THEN "StopIteration"
                                        ELSE "raised"]

\* generator.close() and generator.throw(type, ...) of the composite: the
\* exception is raised at the yield, inside the with statement
composite_throw(c, exc, undo) ==
    IF c.generator # "suspended"
    THEN [c EXCEPT !.generator = "finished",
                   !.out = IF exc = "GeneratorExit" THEN "closed"
                           ELSE "value raised"]
    ELSE LET x == stack_exit(c.children, Len(c.children), Some(exc), undo,
                             c.log)
         IN  [c EXCEPT !.children = x.children, !.log = x.log,
                       !.generator = "finished",
                       !.out = CASE x.exc = None ->
                                     IF exc = "GeneratorExit" THEN "closed"
                                     ELSE "StopIteration"
                                 [] x.exc = Some(exc) ->
                                     IF exc = "GeneratorExit" THEN "closed"
                                     ELSE "value raised"
                                 [] OTHER -> "raised"]

\* GeneratorDataNode.__enter__ of the composite
Composite_enter(c, does, undo) ==
    IF c.started THEN [c EXCEPT !.result = "self"]
    ELSE LET g == composite_next([c EXCEPT !.started = TRUE], does, undo)
         IN  [g EXCEPT !.result = CASE g.out = "value" -> "self"
                                     [] g.out = "StopIteration" -> "RuntimeError"
                                     [] OTHER -> "raised"]

\* GeneratorDataNode.send of the composite
Composite_send(c, does, undo) ==
    IF ~c.started \/ c.stopped THEN [c EXCEPT !.result = "RuntimeError"]
    ELSE LET g == composite_send(c, does, undo)
         IN  [g EXCEPT !.result = g.out]

\* GeneratorDataNode.__exit__ of the composite
Composite_exit(c, type, undo) ==
    IF ~c.started THEN [c EXCEPT !.result = "RuntimeError"]
    ELSE IF c.stopped THEN [c EXCEPT !.result = "False"]
    ELSE IF type = None
    THEN LET g == composite_throw([c EXCEPT !.stopped = TRUE],
                                  "GeneratorExit", undo)
         IN  [g EXCEPT !.result = IF g.out = "closed" THEN "False"
                                  ELSE "raised"]
    ELSE LET g == composite_throw([c EXCEPT !.stopped = TRUE], "Error", undo)
         IN  [g EXCEPT !.result = CASE g.out = "value raised" -> "False"
                                     [] g.out = "StopIteration" -> "True"
                                     [] OTHER -> "raised"]

CompositeInit ==
    /\ \E kind \in CompositeKinds, n \in CompositeSizes :
        composite = Some([kind |-> kind,
                          children |-> [i \in 1..n |-> GeneratorDataNode],
                          started |-> FALSE, stopped |-> FALSE,
                          generator |-> "created", current |-> 1,
                          out |-> "none", result |-> "none", calls |-> 0,
                          log |-> <<>>])
    /\ unchunker = None
    /\ line = None
    /\ console = None
    /\ recorder = None
    /\ RestIdle

\* the outcomes of the children's generators in one call: what each does when
\* resumed, and what each does when thrown an exception, which matters only
\* if the call ends the composite's generator
Doing(c) == [1..Len(c.children) -> Resumed]
Quiet(c) == [i \in 1..Len(c.children) |-> "reraise"]
Undoing(c, after) ==
    IF c.generator # "finished" /\ after.generator = "finished"
    THEN [1..Len(c.children) -> Thrown] ELSE {Quiet(c)}

CompositeEnter ==
    /\ composite # None
    /\ composite[1].calls < MaxCompositeCalls
    /\ \E does \in Doing(composite[1]) :
        \E undo \in Undoing(composite[1],
                             Composite_enter(composite[1], does,
                                             Quiet(composite[1]))) :
            composite' = Some([Composite_enter(composite[1], does, undo)
                                  EXCEPT !.calls = @ + 1])
    /\ UNCHANGED <<rest, unchunker, line, console, recorder>>

CompositeSend ==
    /\ composite # None
    /\ composite[1].calls < MaxCompositeCalls
    /\ \E does \in Doing(composite[1]) :
        \E undo \in Undoing(composite[1],
                             Composite_send(composite[1], does,
                                            Quiet(composite[1]))) :
            composite' = Some([Composite_send(composite[1], does, undo)
                                  EXCEPT !.calls = @ + 1])
    /\ UNCHANGED <<rest, unchunker, line, console, recorder>>

CompositeExit ==
    /\ composite # None
    /\ composite[1].calls < MaxCompositeCalls
    /\ \E type \in ExitTypes :
        \E undo \in Undoing(composite[1],
                             Composite_exit(composite[1], type,
                                            Quiet(composite[1]))) :
            composite' = Some([Composite_exit(composite[1], type, undo)
                                  EXCEPT !.calls = @ + 1])
    /\ UNCHANGED <<rest, unchunker, line, console, recorder>>

CompositeNext == CompositeEnter \/ CompositeSend \/ CompositeExit

SpecComposite == CompositeInit /\ [][CompositeNext]_vars

---------------------------------------------------------------------------
(* Specification SpecUnchunk: unchunk(node, chunk_shape) is entered, sent  *)
(* buffers of any length and closed.  A sample is its number in the stream, *)
(* 1, 2, ..., so that loss, duplication and disorder show; 0 is the zero of *)
(* numpy.zeros.  The inner node takes what it is sent.                      *)

MaxBuffersSent == 4
ChunkShapes == {2, 3}
DataLengths == {0, 1, 2, 3}

\* the next `length` samples of the stream after `count` samples
NextData(count, length) == [i \in 1..length |-> count + i]

\* the samples of a sequence of buffers, one after another
RECURSIVE Flatten(_)
Flatten(buffers) ==
    IF buffers = <<>> THEN <<>> ELSE Head(buffers) \o Flatten(Tail(buffers))

\* a plausible slip: the data copied to the start of the chunk
copy_into_start(chunk, index, data, length) ==
    [i \in 1..Len(chunk) |-> IF i <= length THEN data[i] ELSE chunk[i]]

\* chunk[index:index+length] = data[:length]
copy_into(chunk, index, data, length) ==
    [i \in 1..Len(chunk) |->
        IF i > index /\ i <= index + length THEN data[i - index] ELSE chunk[i]]

\* unchunk: `while data.shape[0] > 0:` with the locals chunk and index; out
\* is what node.send has been given
RECURSIVE unchunk_while(_, _)
unchunk_while(u, data) ==
    IF Len(data) = 0 THEN u
    ELSE LET length == min(Len(u.chunk) - u.index, Len(data))
             chunk == copy_into(u.chunk, u.index, data, length)
             index == u.index + length
             data1 == SubSeq(data, length + 1, Len(data))
         IN  IF index = Len(chunk)
             THEN unchunk_while([u EXCEPT !.chunk = chunk, !.index = 0,
                                          !.out = Append(@, chunk)], data1)
             ELSE unchunk_while([u EXCEPT !.chunk = chunk, !.index = index],
                                data1)

\* unchunk up to its first yield, inside `with node:`
unchunk(chunk_shape) ==
    [chunk |-> [i \in 1..chunk_shape |-> 0], index |-> 0, out |-> <<>>]

\* the unchunk node sent a sequence of buffers, one after another
RECURSIVE unchunk_sends(_, _)
unchunk_sends(u, buffers) ==
    IF buffers = <<>> THEN u
    ELSE unchunk_sends(unchunk_while(u, Head(buffers)), Tail(buffers))

\* chunk: what it yields for a source that yields these buffers and ends;
\* the last chunk is filled with zeros
chunk(buffers, chunk_shape) ==
    LET c == unchunk_sends(unchunk(chunk_shape), buffers)
    IN  IF c.index > 0
        THEN Append(c.out,
                    [i \in 1..chunk_shape |->
                        IF i <= c.index THEN c.chunk[i] ELSE 0])
        ELSE c.out

UnchunkInit ==
    /\ \E chunk_shape \in ChunkShapes :
        unchunker = Some([node |-> unchunk(chunk_shape),
                          started |-> FALSE, stopped |-> FALSE,
                          inner |-> "created",
                          sent |-> <<>>, result |-> "none"])
    /\ composite = None
    /\ line = None
    /\ console = None
    /\ recorder = None
    /\ RestIdle

\* GeneratorDataNode.__enter__: next(generator) enters the inner node
UnchunkEnter ==
    /\ unchunker # None
    /\ ~unchunker[1].started
    /\ unchunker' = Some([unchunker[1] EXCEPT !.started = TRUE,
                                               !.inner = "entered",
                                               !.result = "self"])
    /\ UNCHANGED <<rest, composite, line, console, recorder>>

\* GeneratorDataNode.send(data) with a buffer of any length
UnchunkSend ==
    /\ unchunker # None
    /\ Len(unchunker[1].sent) < MaxBuffersSent
    /\ \E length \in DataLengths :
        LET u == unchunker[1]
            data == NextData(Len(Flatten(u.sent)), length)
        IN  unchunker' =
                IF ~u.started \/ u.stopped
                THEN Some([u EXCEPT !.result = "RuntimeError"])
                ELSE Some([u EXCEPT !.node = unchunk_while(u.node, data),
                                    !.sent = Append(@, data),
                                    !.result = "value"])
    /\ UNCHANGED <<rest, composite, line, console, recorder>>

\* GeneratorDataNode.__exit__(): generator.close() raises GeneratorExit at
\* the yield and `with node:` exits the inner node; chunk and index are left
UnchunkExit ==
    /\ unchunker # None
    /\ LET u == unchunker[1]
       IN  unchunker' =
               IF ~u.started THEN Some([u EXCEPT !.result = "RuntimeError"])
               ELSE IF u.stopped THEN Some([u EXCEPT !.result = "False"])
               ELSE Some([u EXCEPT !.stopped = TRUE,
                                   !.inner = "exited",
                                   !.result = "False"])
    /\ UNCHANGED <<rest, composite, line, console, recorder>>

UnchunkNext == UnchunkEnter \/ UnchunkSend \/ UnchunkExit

SpecUnchunk == UnchunkInit /\ [][UnchunkNext]_vars

---------------------------------------------------------------------------
(* Specification SpecLine: a TerminalLine is written to with addstr and    *)
(* cleared.  Columns are counted from 0 as in the code; chars[c + 1] is the *)
(* cell of column c.  An index is given in halves, so that a float index is *)
(* rounded as Python rounds it.  The tab and the backspace are written as    *)
(* the strings of their escapes.                                           *)

MaxText == 3
Widths == {2, 4}
TextChars == {"\\t", "\\b", "a", "b"}
\* index in halves: -1, 0, 0.5, 2, 2.5, 4
Indexes2 == {-2, 0, 1, 4, 5, 8}
\* slice(start, stop, None), None included
Masks == {<<None, None>>, <<Some(1), Some(3)>>, <<Some(-2), None>>,
          <<None, Some(-1)>>}
Texts == UNION {[1..n -> TextChars] : n \in 0..MaxText}

\* a bound of a slice over a sequence of `width` items, as slice.indices
\* gives it
slice_bound(bound, width, default) ==
    IF bound = None THEN default
    ELSE IF bound[1] < 0 THEN max(bound[1] + width, 0)
    ELSE min(bound[1], width)

\* a plausible slip: the mask not looked at
in_mask_any(index, width, mask) == index \in 0..(width - 1)

\* index in range(self.width)[mask]
in_mask(index, width, mask) ==
    /\ index \in 0..(width - 1)
    /\ index >= slice_bound(mask[1], width, 0)
    /\ index < slice_bound(mask[2], width, width)

\* TerminalLine.__init__
TerminalLine(width) == [width |-> width, chars |-> [i \in 1..width |-> " "]]

\* a plausible slip: the line not cleared between two frames
clear_nothing(l) == l

\* TerminalLine.clear
clear(l) == [l EXCEPT !.chars = [i \in 1..l.width |-> " "]]

\* TerminalLine.addstr: `for ch in str:` with the local index
RECURSIVE addstr_for(_, _, _, _)
addstr_for(l, index, str, mask) ==
    IF str = <<>> THEN l
    ELSE LET ch == Head(str)
         IN  CASE ch = "\\t" -> addstr_for(l, index + 1, Tail(str), mask)
               [] ch = "\\b" -> addstr_for(l, index - 1, Tail(str), mask)
               [] OTHER ->
                    addstr_for(IF in_mask(index, l.width, mask)
                               THEN [l EXCEPT !.chars[index + 1] = ch]
                               ELSE l,
                               index + 1, Tail(str), mask)

\* TerminalLine.addstr(index, str, mask); a float index is rounded
addstr(l, index2, str, mask) == addstr_for(l, round(index2), str, mask)

\* a line in use: any content that addstr calls can have written
LineInit ==
    /\ \E width \in Widths :
        \E chars \in [1..width -> {" ", "a", "b"}] :
            line = Some([line |-> [TerminalLine(width) EXCEPT !.chars = chars],
                         last |-> None])
    /\ composite = None
    /\ unchunker = None
    /\ console = None
    /\ recorder = None
    /\ RestIdle

\* the next call is addstr; the call and the cells before it are kept
LineAddstr ==
    /\ line # None
    /\ line[1].last = None
    /\ \E index2 \in Indexes2, str \in Texts, mask \in Masks :
        line' = Some([line |-> addstr(line[1].line, index2, str, mask),
                      last |-> Some([op |-> "addstr", index2 |-> index2,
                                     str |-> str, mask |-> mask,
                                     before |-> line[1].line.chars])])
    /\ UNCHANGED <<rest, composite, unchunker, console, recorder>>

\* the next call is clear
LineClear ==
    /\ line # None
    /\ line[1].last = None
    /\ line' = Some([line |-> clear(line[1].line),
                      last |-> Some([op |-> "clear", index2 |-> 0,
                                     str |-> <<>>, mask |-> <<None, None>>,
                                     before |-> line[1].line.chars])])
    /\ UNCHANGED <<rest, composite, unchunker, console, recorder>>

LineNext == LineAddstr \/ LineClear

SpecLine == LineInit /\ [][LineNext]_vars

---------------------------------------------------------------------------
(* Specification SpecConsole: the main thread runs KnockConsole.run while  *)
(* SIGINT may be delivered at any point.  pc is the point the main thread   *)
(* has reached; `opened` holds what has been made or entered, in order.     *)

MaxTicks == 3
MaxSigints == 2

\* what run makes and enters, in the order of the code: the audio manager,
\* the three timed nodes, the two streams and the display thread, the program
Entered ==
    <<"manager", "mixer", "detector", "renderer", "output_stream",
      "input_stream", "display_thread", "program">>

\* output_stream.start_stream(); input_stream.start_stream();
\* display_thread.start()
Started == {"output_stream", "input_stream", "display_thread"}

RECURSIVE Reverse(_)
Reverse(seq) ==
    IF seq = <<>> THEN <<>> ELSE Append(Reverse(Tail(seq)), Head(seq))

\* leaving the with statements and the try: what was entered is exited, the
\* last first, and `finally` terminates the manager
leave(opened) == Reverse(opened)

\* run is left from where it is: by break, by the end of the loop, or by an
\* exception
ConsoleLeft(c, outcome) ==
    [c EXCEPT !.pc = "done",
              !.active = {},
              !.closed = leave(c.opened),
              !.outcome = IF c.opened = <<>> THEN "UnboundLocalError"
                          ELSE outcome]

ConsoleInit ==
    /\ console = Some([pc |-> "try", stopped |-> FALSE, handler |-> "default",
                        opened |-> <<>>, closed |-> <<>>, ticks |-> 0,
                        sigints |-> 0, issued |-> 0, outcome |-> "none",
                        active |-> {}])
    /\ composite = None
    /\ unchunker = None
    /\ line = None
    /\ recorder = None
    /\ RestIdle

\* the next of: pyaudio.PyAudio(), the three nodes entered, the streams and
\* the thread entered, the program connected (the streams are started once
\* it is).  Any of them may raise.
ConsoleOpen ==
    /\ console # None
    /\ console[1].pc = "try"
    /\ \E raises \in BOOLEAN :
        console' =
            IF raises THEN Some(ConsoleLeft(console[1], "error"))
            ELSE LET opened == Append(console[1].opened,
                                      Entered[Len(console[1].opened) + 1])
                 IN  Some([console[1] EXCEPT
                              !.pc = IF opened = Entered THEN "program"
                                     ELSE "try",
                              !.active = IF opened = Entered THEN Started
                                         ELSE @,
                              !.opened = opened])
    /\ UNCHANGED <<rest, composite, unchunker, line, recorder>>

\* `for _ in loop:` resumes the program's loop: a tick starts, or the loop
\* has ended, or the tick raises
ConsoleTick ==
    /\ console # None
    /\ console[1].pc = "program"
    /\ \E does \in Resumed :
        console' =
            CASE does = "yield" /\ console[1].ticks < MaxTicks ->
                    Some([console[1] EXCEPT
                             !.pc = "tick", !.ticks = @ + 1,
                             !.issued = IF console[1].sigints > 0
                                        THEN @ + 1 ELSE @])
              [] does = "raise" -> Some(ConsoleLeft(console[1], "error"))
              [] OTHER -> Some(ConsoleLeft(console[1], "ended"))
    /\ UNCHANGED <<rest, composite, unchunker, line, recorder>>

\* the tick is over; `if self.stopped or not ...is_active() ...: break`
ConsoleCheck ==
    /\ console # None
    /\ console[1].pc = "tick"
    /\ console' =
            IF console[1].stopped \/ console[1].active # Started
            THEN Some(ConsoleLeft(console[1], "break"))
            ELSE Some([console[1] EXCEPT !.pc = "install"])
    /\ UNCHANGED <<rest, composite, unchunker, line, recorder>>

\* signal.signal(signal.SIGINT, self.SIGINT_handler)
ConsoleInstall ==
    /\ console # None
    /\ console[1].pc = "install"
    /\ console' = Some([console[1] EXCEPT !.pc = "program",
                                           !.handler = "SIGINT_handler"])
    /\ UNCHANGED <<rest, composite, unchunker, line, recorder>>

\* SIGINT is delivered: SIGINT_handler sets the flag if it is installed; the
\* handler Python starts with raises KeyboardInterrupt in the main thread
ConsoleSigint ==
    /\ console # None
    /\ console[1].pc # "done"
    /\ console[1].sigints < MaxSigints
    /\ console' =
           IF console[1].handler = "SIGINT_handler"
           THEN Some([console[1] EXCEPT !.stopped = TRUE, !.sigints = @ + 1])
           ELSE Some(ConsoleLeft([console[1] EXCEPT !.sigints = @ + 1],
                                 "KeyboardInterrupt"))
    /\ UNCHANGED <<rest, composite, unchunker, line, recorder>>

\* a stream's callback or the display thread comes to its end
ConsoleStops ==
    /\ console # None
    /\ console[1].pc # "done"
    /\ \E stream \in console[1].active :
        console' = Some([console[1] EXCEPT !.active = @ \ {stream}])
    /\ UNCHANGED <<rest, composite, unchunker, line, recorder>>

ConsoleNext ==
    ConsoleOpen \/ ConsoleTick \/ ConsoleCheck \/ ConsoleInstall
        \/ ConsoleSigint \/ ConsoleStops

SpecConsole == ConsoleInit /\ [][ConsoleNext]_vars

---------------------------------------------------------------------------
(* Specification SpecRecord: the input callback of record() is called with  *)
(* buffers of raw samples.  A normalised sample is [num, bits], standing    *)
(* for num / 2^bits.                                                        *)

MaxCallbacks == 2
Formats == {"i4", "i2", "i1", "u1"}
buffer_shape == 2

\* int(format[1])
format_bytes(format) ==
    CASE format = "i4" -> 4
      [] format = "i2" -> 2
      [] OTHER -> 1

\* scale = 2.0 ** (8*int(format[1]) - 1), as its exponent
scale_bits(format) == 8 * format_bytes(format) - 1

\* the least and the greatest value of numpy's dtype `format`
dtype_min(format) ==
    IF format = "u1" THEN 0
    ELSE -(2 ^ (scale_bits(format) - 1)) - 2 ^ (scale_bits(format) - 1)
dtype_max(format) ==
    IF format = "u1" THEN 255
    ELSE 2 ^ (scale_bits(format) - 1) - 1 + 2 ^ (scale_bits(format) - 1)

\* raw samples: the ends of the dtype, its middle and their neighbours
RawSamples(format) ==
    {dtype_min(format), dtype_min(format) + 1,
     dtype_max(format) - 1, dtype_max(format)}
        \cup (IF format = "u1" THEN {63, 64, 65, 127, 128}
              ELSE {-1, 0, 1})

RawBuffers(format) == [1..buffer_shape -> RawSamples(format)]

\* (d - 64) / 64 on an array of dtype uint8: the difference stays uint8 and
\* wraps, the quotient is a float
normalize_u1(d) == [num |-> (d - 64) % 256, bits |-> 6]

normalize(format, d) ==
    IF format = "u1" THEN normalize_u1(d)
    ELSE [num |-> d, bits |-> scale_bits(format)]

\* -1 <= num / 2^bits <= 1
InUnit(v) ==
    LET half == 2 ^ (v.bits - 1)
    IN  /\ v.num < 0 => v.num + half >= -half
        /\ v.num > 0 => v.num - half <= half

RecordInit ==
    /\ \E format \in Formats :
        recorder = Some([format |-> format, in_data |-> None, data |-> None,
                         stopped |-> FALSE, calls |-> 0, returned |-> None])
    /\ composite = None
    /\ unchunker = None
    /\ line = None
    /\ console = None
    /\ RestIdle

\* input_callback(in_data, ...): the samples are normalised and sent to the
\* node, or the stream is completed if the node has stopped
RecordCallback ==
    /\ recorder # None
    /\ recorder[1].calls < MaxCallbacks
    /\ recorder[1].returned # Some("paComplete")
    /\ \E in_data \in RawBuffers(recorder[1].format) :
        recorder' =
            IF recorder[1].stopped
            THEN Some([recorder[1] EXCEPT !.returned = Some("paComplete"),
                                          !.calls = @ + 1])
            ELSE Some([recorder[1] EXCEPT
                          !.in_data = Some(in_data),
                          !.data = Some([k \in 1..buffer_shape |->
                                normalize(recorder[1].format, in_data[k])]),
                          !.returned = Some("paContinue"),
                          !.calls = @ + 1])
    /\ UNCHANGED <<rest, composite, unchunker, line, console>>

\* the node comes to its end
RecordStopped ==
    /\ recorder # None
    /\ ~recorder[1].stopped
    /\ recorder' = Some([recorder[1] EXCEPT !.stopped = TRUE])
    /\ UNCHANGED <<rest, composite, unchunker, line, console>>

RecordNext == RecordCallback \/ RecordStopped

SpecRecord == RecordInit /\ [][RecordNext]_vars

---------------------------------------------------------------------------
(* Specification SpecSlice: tslice(node, samplerate, start, end) over a     *)
(* source of numbered samples cut into blocks; the node is entered and then *)
(* sent to until it ends.  start * samplerate and end * samplerate are      *)
(* counted in half samples.                                                 *)

MaxBlocks == 3
BlockLengths == {1, 2, 3}
SliceTimes2 == {None, Some(0), Some(1), Some(3), Some(4), Some(6), Some(9)}

\* the source: the samples 0, 1, ... in blocks of the given lengths
SourceOf(lengths) ==
    [k \in DOMAIN lengths |->
        [j \in 1..lengths[k] |->
            sum(SubSeq(lengths, 1, k - 1)) + j - 1]]

Sources ==
    {SourceOf(lengths) :
        lengths \in UNION {[1..n -> BlockLengths] : n \in 0..MaxBlocks}}

\* round(start*samplerate) if start is not None else start
slice_round(time2) == IF time2 = None THEN None ELSE Some(round(time2[1]))

\* data[a:] of Python, for a >= 0
drop(data, a) == SubSeq(data, a + 1, Len(data))
\* data[:b] of Python; a negative b counts from the end
take(data, b) ==
    IF b >= 0 THEN SubSeq(data, 1, min(b, Len(data)))
    ELSE SubSeq(data, 1, max(0, Len(data) + b))

\* the generator runs up to its next `yield data` or `yield data[:end-index]`
tslice_yield(t) ==
    IF t.end = None \/ t.end[1] >= t.index + Len(t.data)
    THEN [t EXCEPT !.pc = "yield data", !.yielded = Some(t.data)]
    ELSE [t EXCEPT !.pc = "yield last",
                   !.yielded = Some(take(t.data, t.end[1] - t.index))]

\* data = node.send(): the next block of the source; StopIteration of the
\* source inside the generator leaves it as RuntimeError (PEP 479)
tslice_pull(t) ==
    IF t.source = <<>>
    THEN [t EXCEPT !.pc = "raised", !.yielded = None]
    ELSE [t EXCEPT !.data = Head(t.source), !.source = Tail(t.source)]

\* while start >= index + data.shape[0]: index += ...; data = node.send()
\* else: data = data[start-index:]; index = start
\* except StopIteration: yield; return
RECURSIVE tslice_skip(_)
tslice_skip(t) ==
    IF t.start[1] >= t.index + Len(t.data)
    THEN IF t.source = <<>>
         THEN [t EXCEPT !.pc = "yield end", !.yielded = None,
                        !.index = @ + Len(t.data)]
         ELSE tslice_skip([t EXCEPT !.index = @ + Len(t.data),
                                    !.data = Head(t.source),
                                    !.source = Tail(t.source)])
    ELSE tslice_yield([t EXCEPT !.data = drop(t.data, t.start[1] - t.index),
                                !.index = t.start[1]])

\* next(generator): tslice up to its first yield
tslice_start(t) ==
    IF t.start = None \/ t.start[1] <= 0
    THEN [t EXCEPT !.pc = "yield", !.yielded = None]
    ELSE IF t.source = <<>>
         THEN [t EXCEPT !.pc = "yield end", !.yielded = None]
         ELSE tslice_skip([t EXCEPT !.data = Head(t.source),
                                    !.source = Tail(t.source)])

\* generator.send(None): tslice from the yield it waits at to its next one
tslice_resume(t) ==
    CASE t.pc = "yield" ->
            LET u == tslice_pull(t)
            IN  IF u.pc = "raised" THEN u ELSE tslice_yield(u)
      [] t.pc = "yield data" ->
            LET u == tslice_pull([t EXCEPT !.index = @ + Len(t.data)])
            IN  IF u.pc = "raised" THEN u ELSE tslice_yield(u)
      [] OTHER -> [t EXCEPT !.pc = "returned", !.yielded = None]

tslice(source, start2, end2) ==
    [source |-> source, start |-> slice_round(start2),
     end |-> slice_round(end2), index |-> 0, data |-> <<>>,
     pc |-> "new", yielded |-> None, out |-> <<>>, all |-> Flatten(source)]

SliceInit ==
    /\ \E source \in Sources, start2 \in SliceTimes2, end2 \in SliceTimes2 :
        tslicer = Some(tslice(source, start2, end2))
    /\ renderer = None
    /\ shifter = None
    /\ audio = None
    /\ drawers = None
    /\ OthersIdle

\* with tslice(...) as node: GeneratorDataNode.__enter__ runs the generator
\* to its first yield and drops what it yields
SliceEnter ==
    /\ tslicer # None
    /\ tslicer[1].pc = "new"
    /\ tslicer' = Some(tslice_start(tslicer[1]))
    /\ UNCHANGED <<others, renderer, shifter, audio, drawers>>

\* node.send(): the caller gets what the generator yields next
SliceSend ==
    /\ tslicer # None
    /\ tslicer[1].pc \in {"yield", "yield data", "yield last", "yield end"}
    /\ LET t == tslice_resume(tslicer[1])
       IN  tslicer' =
               Some([t EXCEPT !.out = IF t.yielded = None THEN @
                                      ELSE @ \o t.yielded[1]])
    /\ UNCHANGED <<others, renderer, shifter, audio, drawers>>

SliceNext == SliceEnter \/ SliceSend

SpecSlice == SliceInit /\ [][SliceNext]_vars

---------------------------------------------------------------------------
(* Specification SpecRender: ScreenRenderer._node is entered and then sent  *)
(* to by the display thread, which may be late.  Times are counted in       *)
(* quarters of a second.  What the drawers do with (time, screen) is any    *)
(* sequence of addstr calls.                                                *)

MaxFrames == 3
MaxLate == 1
Framerates == {1, 2, 4}
Delays4 == {0, 3}
DrawerWrites ==
    {[index2 |-> i2, str |-> str] :
        i2 \in {0, 2, 6}, str \in {<<"a">>, <<"b", "b">>}}
Drawings == UNION {[1..n -> DrawerWrites] : n \in 0..2}

\* TerminalLine.display
display(l) == <<"\\r">> \o l.chars \o <<"\\r">>

\* sched.send((time, self.screen)): the drawers write on the screen
RECURSIVE draw(_, _)
draw(l, writes) ==
    IF writes = <<>> THEN l
    ELSE draw(addstr(l, writes[1].index2, writes[1].str, <<None, None>>),
              Tail(writes))

\* ScreenRenderer.__init__
ScreenRenderer(screen, framerate, delay4) ==
    [screen |-> screen, framerate |-> framerate, delay4 |-> delay4,
     index |-> 0, pc |-> "new", frames |-> 0, wall4 |-> 0,
     time4 |-> None, drawn |-> <<>>, frame |-> None]

\* one turn of `while True:` of _node, from yield to yield
render_frame(r, writes) ==
    LET time4 == r.index * (4 \div r.framerate) + r.delay4
        screen == draw(clear(r.screen), writes)
    IN  [r EXCEPT !.screen = screen,
                  !.time4 = Some(time4),
                  !.drawn = writes,
                  !.frame = Some(display(screen)),
                  !.frames = @ + 1,
                  !.index = @ + 1]

RenderInit ==
    /\ \E width \in Widths, framerate \in Framerates, delay4 \in Delays4 :
        renderer =
            Some(ScreenRenderer(TerminalLine(width), framerate, delay4))
    /\ tslicer = None
    /\ shifter = None
    /\ audio = None
    /\ drawers = None
    /\ OthersIdle

\* with display_node: the node runs to its first yield
RenderEnter ==
    /\ renderer # None
    /\ renderer[1].pc = "new"
    /\ renderer' = Some([renderer[1] EXCEPT !.pc = "yield"])
    /\ UNCHANGED <<others, tslicer, shifter, audio, drawers>>

\* the display thread sends to the node, on time or late
RenderSend ==
    /\ renderer # None
    /\ renderer[1].pc = "yield"
    /\ renderer[1].frames < MaxFrames
    /\ \E writes \in Drawings, late \in 0..MaxLate :
        renderer' =
            Some([render_frame(renderer[1], writes) EXCEPT
                     !.wall4 = @ + 4 \div renderer[1].framerate + late])
    /\ UNCHANGED <<others, tslicer, shifter, audio, drawers>>

RenderNext == RenderEnter \/ RenderSend

SpecRender == RenderInit /\ [][RenderNext]_vars

---------------------------------------------------------------------------
(* Specification SpecShift: the drawer of a Shift event is sent the render  *)
(* ticks.  Times are relative to field.start_time; bar_shift is counted in  *)
(* quarters, and the shifts are whole numbers so that every ramp of the     *)
(* model divides evenly.                                                    *)

MaxShiftTicks == 4
MaxTickGap == 3
ShiftStart == 2
ShiftLengths == {0, 1, 2, 4}
ShiftValues == {-4, 0, 8}

\* a plausible slip: the ramp taken from 0 instead of the current shift
shift_speed_from_zero(shift, shift0, time, end) ==
    IF end # time THEN shift \div (end - time) ELSE 0

\* speed = (self.shift - shift0) / (self.end - self.time)
\*         if self.end != self.time else 0
shift_speed(shift, shift0, time, end) ==
    IF end # time THEN (shift - shift0) \div (end - time) ELSE 0

\* Shift.__init__ and the generator of _node, not yet started
Shift(shift, time, length, bar_shift) ==
    [time |-> time, end |-> time + length, shift |-> shift,
     bar_shift |-> bar_shift, pc |-> "new", shift0 |-> 0, speed |-> 0,
     log |-> <<>>]

\* after `while time < self.time`: shift0 and speed are taken, then the ramp
\* or the target is written
Shift_ramp(e, t) ==
    IF t < e.end
    THEN [e EXCEPT !.bar_shift = e.shift0 + e.speed * (t - e.time),
                   !.pc = "ramp"]
    ELSE [e EXCEPT !.bar_shift = e.shift, !.pc = "last"]

\* the generator resumed with (time, screen); t is time - field.start_time
Shift_send(e, t) ==
    CASE e.pc = "wait" ->
            IF t < e.time THEN e
            ELSE Shift_ramp([e EXCEPT !.shift0 = e.bar_shift,
                                      !.speed = shift_speed(e.shift, e.bar_shift,
                                                            e.time, e.end)],
                            t)
      [] e.pc = "ramp" -> Shift_ramp(e, t)
      [] OTHER -> [e EXCEPT !.pc = "ended"]

ShiftInit ==
    /\ \E shift \in ShiftValues, length \in ShiftLengths,
          bar_shift \in ShiftValues :
        shifter = Some(Shift(shift, ShiftStart, length, bar_shift))
    /\ tslicer = None
    /\ renderer = None
    /\ audio = None
    /\ drawers = None
    /\ OthersIdle

\* the scheduler enters the node: it runs to its first yield
ShiftEnter ==
    /\ shifter # None
    /\ shifter[1].pc = "new"
    /\ shifter' = Some([shifter[1] EXCEPT !.pc = "wait"])
    /\ UNCHANGED <<others, tslicer, renderer, audio, drawers>>

\* a render tick: the node is sent the time of the frame
ShiftTick ==
    /\ shifter # None
    /\ shifter[1].pc \in {"wait", "ramp", "last"}
    /\ Len(shifter[1].log) < MaxShiftTicks
    /\ \E gap \in 1..MaxTickGap :
        LET e == shifter[1]
            t == IF e.log = <<>> THEN gap - 1 ELSE Last(e.log).t + gap
            after == Shift_send(e, t)
        IN  shifter' =
                Some([after EXCEPT
                         !.log = Append(@, [t |-> t,
                                            before |-> e.bar_shift,
                                            after |-> after.bar_shift,
                                            wrote |-> e.pc # "last"
                                                /\ after.pc # "wait"])])
    /\ UNCHANGED <<others, tslicer, renderer, audio, drawers>>

ShiftNext == ShiftEnter \/ ShiftTick

SpecShift == ShiftInit /\ [][ShiftNext]_vars

---------------------------------------------------------------------------
(* Specification SpecCallbacks: render callbacks are registered on and     *)
(* removed from the playfield while the renderer draws frames.             *)

MaxCallbackCalls == 4                  \* calls of the four methods in a behaviour
MaxRenders == 3                \* frames drawn in a behaviour
CallbackKeys == {1, 2}
\* zindex=() sorts before every other zindex, zindex=(numpy.inf,) after
BeforeZindex == -9
AfterZindex == 9

\* console.add_drawer(node, zindex, key): the mutation put on the queue
add_drawer(node, zindex, key) ==
    [key |-> key, node |-> Some(node), zindex |-> zindex]

\* console.remove_drawer(key): the mutation put on the queue
remove_drawer(key) ==
    [key |-> key, node |-> None, zindex |-> 0]

\* PlayField.register_handlers: the drawers of the status and of the sight
PlayFieldDrawers ==
    <<add_drawer([id |-> 0, by |-> "status"], -3, <<"status", 0>>),
      add_drawer([id |-> 0, by |-> "sight"], 2, <<"sight", 0>>)>>

\* PlayField.on_before_render(node, key)
on_before_render(d, node, key) ==
    [d EXCEPT
        !.mutations = put(@, add_drawer(node, BeforeZindex,
                                        <<"before_renderer", key>>)),
        !.registered = @ \cup {<<"before", key>>},
        !.last = Some([op |-> "on_before_render", key |-> key,
                       raised |-> None])]

\* PlayField.on_after_render(node, key): the key is tagged 'before_renderer'
on_after_render(d, node, key) ==
    [d EXCEPT
        !.mutations = put(@, add_drawer(node, AfterZindex,
                                        <<"before_renderer", key>>)),
        !.registered = @ \cup {<<"after", key>>},
        !.last = Some([op |-> "on_after_render", key |-> key,
                       raised |-> None])]

\* PlayField.remove_before_render_callback(key) and
\* remove_after_render_callback(key): the arguments of
\* self.console.remove_drawer(node, (tag, key)) are evaluated first, and
\* `node` is a name of neither the method nor the module
remove_render_callback(d, op, tag, key) ==
    [d EXCEPT !.last = Some([op |-> op, key |-> key,
                             raised |-> Some("NameError")])]

\* the scheduler takes every mutation of the queue before it draws
RECURSIVE sched_drain(_, _)
sched_drain(children, queue) ==
    IF queue = <<>> THEN children
    ELSE sched_drain(sched_apply(children, Head(queue)), Tail(queue))

CallbacksInit ==
    /\ drawers = Some([mutations |-> PlayFieldDrawers, children |-> <<>>,
                       registered |-> {}, calls |-> 0, renders |-> 0,
                       last |-> None])
    /\ tslicer = None
    /\ renderer = None
    /\ shifter = None
    /\ audio = None
    /\ OthersIdle

OnBeforeRender ==
    /\ drawers # None
    /\ drawers[1].calls < MaxCallbackCalls
    /\ \E key \in CallbackKeys :
        drawers' = Some([on_before_render(drawers[1],
                            [id |-> drawers[1].calls + 1, by |-> "before"],
                            key)
                         EXCEPT !.calls = @ + 1])
    /\ UNCHANGED <<others, tslicer, renderer, shifter, audio>>

OnAfterRender ==
    /\ drawers # None
    /\ drawers[1].calls < MaxCallbackCalls
    /\ \E key \in CallbackKeys :
        drawers' = Some([on_after_render(drawers[1],
                            [id |-> drawers[1].calls + 1, by |-> "after"],
                            key)
                         EXCEPT !.calls = @ + 1])
    /\ UNCHANGED <<others, tslicer, renderer, shifter, audio>>

RemoveBeforeRenderCallback ==
    /\ drawers # None
    /\ drawers[1].calls < MaxCallbackCalls
    /\ \E key \in CallbackKeys :
        drawers' = Some([remove_render_callback(drawers[1],
                            "remove_before_render_callback",
                            "before_renderer", key)
                         EXCEPT !.calls = @ + 1])
    /\ UNCHANGED <<others, tslicer, renderer, shifter, audio>>

RemoveAfterRenderCallback ==
    /\ drawers # None
    /\ drawers[1].calls < MaxCallbackCalls
    /\ \E key \in CallbackKeys :
        drawers' = Some([remove_render_callback(drawers[1],
                            "remove_after_render_callback",
                            "after_renderer", key)
                         EXCEPT !.calls = @ + 1])
    /\ UNCHANGED <<others, tslicer, renderer, shifter, audio>>

\* a frame of the renderer: the queue is emptied into the scheduler
CallbacksRender ==
    /\ drawers # None
    /\ drawers[1].renders < MaxRenders
    /\ drawers' = Some([drawers[1] EXCEPT
                           !.children = sched_drain(@, drawers[1].mutations),
                           !.mutations = <<>>,
                           !.renders = @ + 1])
    /\ UNCHANGED <<others, tslicer, renderer, shifter, audio>>

CallbacksNext ==
    \/ OnBeforeRender
    \/ OnAfterRender
    \/ RemoveBeforeRenderCallback
    \/ RemoveAfterRenderCallback
    \/ CallbacksRender

SpecCallbacks == CallbacksInit /\ [][CallbacksNext]_vars

---------------------------------------------------------------------------
(* Specification SpecStream: the context managers play and record.  The    *)
(* audio thread runs the stream callback while the thread that entered the *)
(* context manager starts the stream, leaves the body and shuts down.      *)

MaxStreamCallbacks == 3        \* callbacks of a stream in a behaviour
StreamKinds == {"play", "record"}

\* the steps of the shutdown, in the order of the source: `finally:
\* stream.stop_stream(); stream.close()` inside `with node:`, whose exit
\* closes the node
shutdown_step_node_first(k) ==
    CASE k = 1 -> "exit" [] k = 2 -> "stop_stream" [] k = 3 -> "close"

shutdown_step(k) ==
    CASE k = 1 -> "stop_stream" [] k = 2 -> "close" [] k = 3 -> "exit"

\* GeneratorDataNode.__enter__
data_node_enter(n) == [n EXCEPT !.started = TRUE]

\* GeneratorDataNode.__exit__
data_node_exit(n) == [n EXCEPT !.stopped = TRUE]

\* the node given to play or record: new, or one that was used and
\* finalized before
StreamNodes ==
    {[started |-> FALSE, stopped |-> FALSE],
     [started |-> TRUE, stopped |-> TRUE]}

\* manager.open(..., stream_callback=callback, start=False)
StreamInit ==
    /\ \E kind \in StreamKinds, node \in StreamNodes :
        audio = Some([kind |-> kind, node |-> node, stream |-> "opened",
                      main |-> "open", left |-> 0, callback |-> "idle",
                      log |-> <<>>])
    /\ tslicer = None
    /\ renderer = None
    /\ shifter = None
    /\ drawers = None
    /\ OthersIdle

\* `with node:` is entered and the stream is yielded to the body
StreamEnter ==
    /\ audio # None
    /\ audio[1].main = "open"
    /\ audio' = Some([audio[1] EXCEPT !.node = data_node_enter(@),
                                      !.main = "body"])
    /\ UNCHANGED <<others, tslicer, renderer, shifter, drawers>>

\* the body: stream.start_stream()
StreamStart ==
    /\ audio # None
    /\ audio[1].main = "body"
    /\ audio[1].stream = "opened"
    /\ audio' = Some([audio[1] EXCEPT !.stream = "active"])
    /\ UNCHANGED <<others, tslicer, renderer, shifter, drawers>>

\* the body is left, by its end or by an exception
StreamLeave ==
    /\ audio # None
    /\ audio[1].main = "body"
    /\ audio' = Some([audio[1] EXCEPT !.main = "shutdown"])
    /\ UNCHANGED <<others, tslicer, renderer, shifter, drawers>>

\* one step of the shutdown; stop_stream and close return when no callback
\* is running
StreamShutdown ==
    /\ audio # None
    /\ audio[1].main = "shutdown"
    /\ LET does == shutdown_step(audio[1].left + 1)
       IN  /\ does \in {"stop_stream", "close"} => audio[1].callback = "idle"
           /\ audio' = Some([audio[1] EXCEPT
                  !.left = @ + 1,
                  !.main = IF audio[1].left + 1 = 3 THEN "done" ELSE @,
                  !.stream = CASE does = "stop_stream" -> "stopped"
                               [] does = "close" -> "closed"
                               [] OTHER -> @,
                  !.node = IF does = "exit" THEN data_node_exit(@) ELSE @])
    /\ UNCHANGED <<others, tslicer, renderer, shifter, drawers>>

\* the callback up to `if node.stopped: raise StopIteration`
StreamCallbackCheck ==
    /\ audio # None
    /\ audio[1].stream = "active"
    /\ audio[1].callback = "idle"
    /\ Len(audio[1].log) < MaxStreamCallbacks
    /\ IF audio[1].node.stopped
       THEN audio' = Some([audio[1] EXCEPT
                !.stream = "complete",
                !.log = Append(@, [found_stopped |-> TRUE, sent |-> FALSE,
                                   on_closed |-> FALSE,
                                   result |-> "paComplete",
                                   during |-> audio[1].main])])
       ELSE audio' = Some([audio[1] EXCEPT !.callback = "checked"])
    /\ UNCHANGED <<others, tslicer, renderer, shifter, drawers>>

\* the rest of the callback: node.send and the return
StreamCallbackSend ==
    /\ audio # None
    /\ audio[1].callback = "checked"
    /\ IF audio[1].node.stopped
       THEN \* send raises RuntimeError, which the callback does not catch
            audio' = Some([audio[1] EXCEPT
                !.callback = "idle",
                !.stream = "complete",
                !.log = Append(@, [found_stopped |-> FALSE, sent |-> TRUE,
                                   on_closed |-> TRUE,
                                   result |-> "RuntimeError",
                                   during |-> audio[1].main])])
       ELSE \E ends \in BOOLEAN :
            audio' = Some([audio[1] EXCEPT
                !.callback = "idle",
                !.stream = IF ends THEN "complete" ELSE @,
                !.log = Append(@, [found_stopped |-> FALSE, sent |-> TRUE,
                                   on_closed |-> FALSE,
                                   result |-> IF ends THEN "paComplete"
                                              ELSE "paContinue",
                                   during |-> audio[1].main])])
    /\ UNCHANGED <<others, tslicer, renderer, shifter, drawers>>

StreamNext ==
    \/ StreamEnter
    \/ StreamStart
    \/ StreamLeave
    \/ StreamShutdown
    \/ StreamCallbackCheck
    \/ StreamCallbackSend

SpecStream == StreamInit /\ [][StreamNext]_vars

---------------------------------------------------------------------------
(* Claims about the judgement and the targets *)

\* the least i in 0..2 with |err| < tol*(2i+1), or 3 if there is none
LeastShift(tol, err) ==
    LET fits == {i \in 0..2 : abs(err) < tol * (2 * i + 1)}
    IN  IF fits = {} THEN 3
        ELSE CHOOSE i \in fits : \A j \in fits : i <= j

LastHit(i) ==
    call # None /\ call[1].op = "hit" /\ call[1].id = i

\* C4: a knock of strength s on a Soft target is correct-key iff
\* s < soft_threshold and on a Loud target iff s >= loud_threshold; perf is
\* judge(tol, note time, knock time, correct-key) and the score is the score
\* table's entry of that grade; a perfectly timed Soft hit of strength 0.2
\* yields PERFECT with score 16 = full_score and a perfectly timed Loud hit of
\* strength 0.3 yields PERFECT_WRONG with score 8.
C4_SoftLoudKey ==
    \A i \in DOMAIN events :
        (LastHit(i) /\ events[i].kind \in {"Soft", "Loud"}) =>
            LET o == events[i]
                c == call[1]
                key == IF o.kind = "Soft" THEN c.strength < soft_threshold
                       ELSE c.strength >= loud_threshold
            IN  /\ o.perf = judge(o.performance_tolerance, o.time,
                                  Some(c.time), key)
                /\ grade_is_wrong(o.perf) = ~key
                /\ score(o) = performances_scores[o.perf]
                /\ (o.kind = "Soft" /\ c.time = o.time /\ c.strength = 2)
                        => /\ o.perf = "PERFECT"
                           /\ score(o) = 16
                           /\ score(o) = o.full_score
                /\ (o.kind = "Loud" /\ c.time = o.time /\ c.strength = 3)
                        => /\ o.perf = "PERFECT_WRONG"
                           /\ score(o) = 8

\* C4 witness: a perfectly timed Loud hit of strength 0.3 has been judged
C4_Witness ==
    \E i \in DOMAIN events :
        /\ LastHit(i)
        /\ events[i].kind = "Loud"
        /\ call[1].time = events[i].time
        /\ call[1].strength = 3
        /\ events[i].perf = "PERFECT_WRONG"

\* C5: for every Soft, Loud, Incr, Roll and Spin target, after any sequence
\* of hit and finish calls on it, its score can be read and
\* 0 <= score <= full_score.
C5_ScoreInRange ==
    \A i \in DOMAIN events :
        /\ ~score_raises(events[i])
        /\ 0 <= score(events[i])
        /\ score(events[i]) <= events[i].full_score

\* C7 as stated: for a Roll with N rocks that has received r knocks, for
\* every r >= 0, score = min(r, 2N - r) * rock_score.
C7_Original ==
    \A i \in DOMAIN events :
        events[i].kind = "Roll" =>
            score(events[i]) =
                min(nhits[i], 2 * events[i].number - nhits[i]) * roll_rock_score

\* C7, amended: for a Roll with N rocks that has received r knocks, for every
\* r >= 0, score = max(0, min(r, 2N - r)) * rock_score; N = 4 with six knocks
\* gives 2 * rock_score.
C7_RollScore ==
    \A i \in DOMAIN events :
        events[i].kind = "Roll" =>
            LET N == events[i].number
                r == nhits[i]
            IN  /\ score(events[i]) = max(0, min(r, 2 * N - r)) * roll_rock_score
                /\ (N = 4 /\ r = 6) => score(events[i]) = 2 * roll_rock_score

\* C7 witness: a Roll of four rocks has received nine knocks and scores 0
C7_Witness ==
    \E i \in DOMAIN events :
        /\ events[i].kind = "Roll"
        /\ events[i].number = 4
        /\ nhits[i] = 9
        /\ score(events[i]) = 0

\* the step is a hit call on target i
HitStep(i) ==
    /\ nhits'[i] = nhits[i] + 1
    /\ call' # None
    /\ call'[1].op = "hit"
    /\ call'[1].id = i

C8_Step ==
    \A i \in DOMAIN events :
        (events[i].kind = "Spin" /\ events[i].capacity > 0) =>
            LET o == events[i]
                p == events'[i]
            IN  /\ HitStep(i) =>
                    /\ p.charge = min(o.charge + min(10, call'[1].strength),
                                      o.capacity)
                    /\ p.is_finished = (o.is_finished \/ p.charge = o.capacity)
                /\ ~HitStep(i) =>
                    /\ p.charge = o.charge
                    /\ p.is_finished = (o.is_finished \/ events' # events)

C8_State ==
    \A i \in DOMAIN events :
        (events[i].kind = "Spin" /\ events[i].capacity > 0) =>
            LET o == events[i]
            IN  /\ 0 <= o.charge /\ o.charge <= o.capacity
                /\ (~o.is_finished) =>
                    /\ o.charge < o.capacity
                    /\ score(o) = (o.full_score * o.charge) \div o.capacity
                /\ (o.is_finished /\ o.charge = o.capacity)
                        => score(o) = o.full_score
                /\ (o.is_finished /\ o.charge < o.capacity) => score(o) = 0

\* C8: for a Spin with capacity C > 0 each delivered knock adds
\* min(1.0, strength) to charge, capped at C; the Spin becomes finished at the
\* knock where charge reaches C or when its window closes (finish); its score
\* is int(full_score * charge / C) while unfinished, full_score once finished
\* with charge = C, and 0 once finished with charge < C.
C8_Spin == [][C8_Step]_vars /\ []C8_State

\* C8 witness: a Spin of capacity 10 was finished with charge 7.3, score 0
C8_Witness ==
    \E i \in DOMAIN events :
        /\ events[i].kind = "Spin"
        /\ events[i].capacity = 100
        /\ events[i].charge = 73
        /\ events[i].is_finished
        /\ score(events[i]) = 0

C9_Step ==
    \A i \in DOMAIN events :
        events[i].kind = "Incr" =>
            LET g == events[i].group
                before == groups[g].threshold
                after == groups'[g].threshold
            IN  /\ after >= before
                /\ HitStep(i) =>
                    LET s == call'[1].strength
                        needed == max(0, min(10, before + incr_threshold))
                    IN  /\ grade_is_wrong(events'[i].perf) = ~(s >= needed)
                        /\ after = max(before, s)
                        /\ (before = 0 /\ s = 3) =>
                              ~grade_is_wrong(events'[i].perf) /\ after = 3
                        /\ (before = 3 /\ s = 5) =>
                              ~grade_is_wrong(events'[i].perf) /\ after = 5
                        /\ (before = 5 /\ s = 7) =>
                              ~grade_is_wrong(events'[i].perf) /\ after = 7
                /\ (\A j \in DOMAIN events : ~HitStep(j)) => after = before

C9_State ==
    \A g \in DOMAIN groups :
        groups[g].threshold = SetMax({0} \cup delivered[g])

\* C9: a knock of strength s on an Incr note is correct-key iff
\* s >= clamp(group.threshold + incr_threshold, 0, 1) evaluated before the
\* knock; after any sequence of knocks on the notes of one group,
\* group.threshold is the maximum of 0 and all strengths delivered so far (it
\* never decreases and a missed note leaves it unchanged); with strengths 0.3,
\* 0.5, 0.7 on three grouped notes all are correct and the threshold
\* progresses 0.3, 0.5, 0.7.
C9_IncrThreshold == [][C9_Step]_vars /\ []C9_State

\* C9 witness: the three notes of a group were hit correctly with 0.3, 0.5, 0.7
C9_Witness ==
    /\ DOMAIN groups = {1}
    /\ delivered[1] = {3, 5, 7}
    /\ groups[1].threshold = 7
    /\ \A i \in DOMAIN events :
        nhits[i] = 1 /\ events[i].perf = "PERFECT"

---------------------------------------------------------------------------
(* Incr.__init__: the groups of Incr notes built one after another.  Beats
   are counted in half beats; context is the OrderedDict context['_incrs'] as
   the sequence of its entries, oldest first, each the key, the group (its
   index in groups) and the beat of the last note of the group. *)

MaxNotes == 4
BuildBeats == {2, 3, 4, 7}
BuildGroupArgs == {None, Some(0), Some(1)}

one_beat == 2
beatmap_offset == 0
beatmap_tempo == 60

\* Beatmap.time; a beat of the model is half a beat
Beatmap_time(beat) == beatmap_offset + (beat * 60) \div beatmap_tempo

incrs_keys(incrs) == {incrs[i].key : i \in DOMAIN incrs}

incrs_get(incrs, key) ==
    incrs[CHOOSE i \in DOMAIN incrs : incrs[i].key = key]

\* for key, (_, last_beat) in incrs.items(): the first entry in range
RECURSIVE find_oldest(_, _, _)
find_oldest(incrs, i, beat) ==
    IF i > Len(incrs) THEN None
    ELSE IF beat - one_beat <= incrs[i].last_beat /\ incrs[i].last_beat <= beat
         THEN Some(incrs[i].key)
         ELSE find_oldest(incrs, i + 1, beat)

RECURSIVE find_recent_from(_, _, _)
find_recent_from(incrs, i, beat) ==
    IF i = 0 THEN None
    ELSE IF beat - one_beat <= incrs[i].last_beat /\ incrs[i].last_beat <= beat
         THEN Some(incrs[i].key)
         ELSE find_recent_from(incrs, i - 1, beat)

\* a plausible slip: the entries scanned oldest first
find_first(incrs, beat) == find_oldest(incrs, 1, beat)

\* for key, (_, last_beat) in reversed(incrs.items()): the first entry in range
find_recent(incrs, beat) == find_recent_from(incrs, Len(incrs), beat)

\* group_key = 0; while group_key in incrs: group_key += 1
RECURSIVE unused_key(_, _)
unused_key(incrs, group_key) ==
    IF group_key \in incrs_keys(incrs)
    THEN unused_key(incrs, group_key + 1)
    ELSE group_key

group_key_of(incrs, group, beat) ==
    IF group # None THEN group[1]
    ELSE LET found == find_recent(incrs, beat)
         IN  IF found # None THEN found[1] ELSE unused_key(incrs, 0)

\* incrs[group_key] = group, beat; incrs.move_to_end(group_key)
incrs_set_last(incrs, entry) ==
    SelectSeq(incrs, LAMBDA e : e.key # entry.key) \o <<entry>>

\* Incr(beatmap, group, beat, context=context), appended to the events
Incr_init(group, beat) ==
    LET group_key == group_key_of(context, group, beat)
        known == group_key \in incrs_keys(context)
        gid == IF known THEN incrs_get(context, group_key).group
               ELSE Len(groups) + 1
        total == IF known THEN groups[gid].total + 1 ELSE IncrGroup.total + 1
    IN  /\ context' = incrs_set_last(context,
                          [key |-> group_key, group |-> gid, last_beat |-> beat])
        /\ groups' = IF known THEN [groups EXCEPT ![gid].total = total]
                     ELSE Append(groups, [IncrGroup EXCEPT !.total = total])
        /\ events' = Append(events,
                        IncrObject(Beatmap_time(beat), 1, TravelTime, gid, total))
        /\ built' = Append(built,
                        [group |-> group, beat |-> beat, key |-> group_key])

BuildInit ==
    /\ ObjIdle
    /\ JudgeIdle
    /\ BuildIdle
    /\ ExtraIdle
    /\ FieldIdle

NewIncr ==
    /\ Len(events) < MaxNotes
    /\ \E group \in BuildGroupArgs, beat \in BuildBeats : Incr_init(group, beat)
    /\ UNCHANGED <<jvars, xvars, call, delivered, nhits, fvars>>

BuildNext == NewIncr

SpecBuild == BuildInit /\ [][BuildNext]_vars

---------------------------------------------------------------------------
(* Claims about the target dispatcher and the displayed score *)

\* the targets that are entered and neither closed nor ended
ActiveNodes ==
    {n \in DOMAIN nodes :
        nodes[n].started /\ ~nodes[n].stopped /\ ~nodes[n].ended}

\* the handler's operations of one step, replayed from the target that was
\* active before: a target is entered only when none is active, when its
\* start is not after the event, and ahead of every target left waiting
\* (earlier start, or equal start and earlier add_target call)
RECURSIVE C1_OpsInOrder(_, _, _)
C1_OpsInOrder(active, ops, time) ==
    IF ops = <<>> THEN TRUE
    ELSE LET o == Head(ops)
         IN  CASE o.op = "enter" ->
                    /\ active = None
                    /\ o.start <= time
                    /\ \A w \in o.left :
                          o.start < w[1] \/ (o.start = w[1] /\ o.node < w[2])
                    /\ C1_OpsInOrder(Some(o.node), Tail(ops), time)
               [] o.op = "exit" ->
                    /\ active = Some(o.node)
                    /\ C1_OpsInOrder(None, Tail(ops), time)
               [] o.op = "send" ->
                    /\ active = Some(o.node)
                    /\ Tail(ops) = <<>>

\* C1: at most one target is active (entered and not yet closed or ended) at
\* any time; a waiting target is activated only when no target is active and
\* its start <= the current event time, and among the waiting targets the one
\* with the earliest start is activated first, equal starts in insertion
\* order.
C1_OneActiveTarget ==
    /\ Cardinality(ActiveNodes) <= 1
    /\ ActiveNodes = (IF target = None THEN {} ELSE {target[1].node})
    /\ step # None =>
        C1_OpsInOrder(IF step[1].before = None THEN None
                      ELSE Some(step[1].before[1].node),
                      step[1].ops, step[1].time)

\* C1 witness: a target was activated ahead of a waiting target with the same
\* start that was added after it
C1_Witness ==
    /\ step # None
    /\ \E k \in DOMAIN step[1].ops :
        /\ step[1].ops[k].op = "enter"
        /\ \E w \in step[1].ops[k].left : w[1] = step[1].ops[k].start

\* C2: a knock (t, min(1, strength)) is delivered to a target only for an
\* event with detected = true and only while that target is the active one
\* with start <= t < start + duration; an active target whose
\* start + duration <= t is closed, and so finished, before the event is
\* considered for delivery; an event with detected = false is delivered to no
\* target.
C2_Delivery ==
    step # None =>
        LET st == step[1]
            ops == st.ops
        IN  /\ \A k \in DOMAIN ops :
                /\ ops[k].op = "send" =>
                    /\ st.detected
                    /\ k = Len(ops)
                    /\ ops[k].time = st.time
                    /\ ops[k].strength = min(10, st.strength)
                    /\ ops[k].start <= st.time
                    /\ st.time < ops[k].start + ops[k].duration
                    /\ IF k = 1
                       THEN st.before # None /\ st.before[1].node = ops[k].node
                       ELSE /\ ops[k - 1].op = "enter"
                            /\ ops[k - 1].node = ops[k].node
                /\ (ops[k].op = "enter"
                        /\ ops[k].start + ops[k].duration <= st.time) =>
                    /\ k < Len(ops)
                    /\ ops[k + 1].op = "exit"
                    /\ ops[k + 1].node = ops[k].node
                /\ ops[k].op = "exit" =>
                    /\ nodes[ops[k].node].stopped
                    /\ is_finished(events[ops[k].node])
            /\ (st.before # None
                    /\ st.before[1].start + st.before[1].duration <= st.time) =>
                /\ ops # <<>>
                /\ ops[1].op = "exit"
                /\ ops[1].node = st.before[1].node
            /\ ~st.detected => \A k \in DOMAIN ops : ops[k].op # "send"

\* C2 witness: a knock of strength 1.2 was delivered as 1.0 to the target
\* that was activated by the same event
C2_Witness ==
    /\ step # None
    /\ step[1].strength = 12
    /\ Len(step[1].ops) >= 2
    /\ step[1].ops[Len(step[1].ops)].op = "send"
    /\ step[1].ops[Len(step[1].ops)].strength = 10

\* C6: at every game tick the score shown on the playfield is less than or
\* equal to the full_score shown.
C6_ScoreBound ==
    playfield # None => playfield[1].score <= playfield[1].full_score

\* the notes of group g among the first n notes built
GroupNotes(g, n) == {i \in 1..n : events[i].group = g}

\* the groups that hold a note among the first n notes built
GroupsBuilt(n) == {events[i].group : i \in 1..n}

LastNote(g, n) == SetMax(GroupNotes(g, n))

\* the groups note n may join: their last note's beat is within one beat
\* before the beat of note n
InReach(n) ==
    {g \in GroupsBuilt(n - 1) :
        /\ built[n].beat - one_beat <= built[LastNote(g, n - 1)].beat
        /\ built[LastNote(g, n - 1)].beat <= built[n].beat}

\* C10: an Incr note constructed without a group key joins the most recently
\* used group whose last note's beat b' has beat - 1 <= b' <= beat, and
\* otherwise starts a new group under the smallest unused non-negative
\* integer key; the k-th note of a group has count k and the group's total is
\* the number of its notes; notes at beats 1, 1.5, 2 built without keys are in
\* one group.
C10_IncrGrouping ==
    /\ Len(built) = Len(events)
    /\ \A n \in DOMAIN built :
        /\ built[n].group = None =>
            IF InReach(n) # {}
            THEN /\ events[n].group \in InReach(n)
                 /\ \A g \in InReach(n) :
                        LastNote(g, n - 1) <= LastNote(events[n].group, n - 1)
            ELSE /\ events[n].group \notin GroupsBuilt(n - 1)
                 /\ built[n].key \in Nat
                 /\ \A i \in 1..(n - 1) : built[i].key # built[n].key
                 /\ \A k \in 0..(built[n].key - 1) :
                        \E i \in 1..(n - 1) : built[i].key = k
        /\ events[n].count = Cardinality(GroupNotes(events[n].group, n))
        /\ \A i \in 1..(n - 1) :
            (built[i].key = built[n].key) <=> (events[i].group = events[n].group)
    /\ \A g \in DOMAIN groups :
        groups[g].total = Cardinality(GroupNotes(g, Len(events)))
    /\ ([i \in DOMAIN built |-> <<built[i].group, built[i].beat>>]
            = <<<<None, 2>>, <<None, 3>>, <<None, 4>>>>)
        => \A i \in DOMAIN events : events[i].group = events[1].group

\* C10 witness: a note built without a key joined the most recently used
\* group although a group created later was within reach as well
C10_Witness ==
    /\ built # <<>>
    /\ LET n == Len(built)
       IN  /\ built[n].group = None
           /\ \E g \in InReach(n) :
                /\ g # events[n].group
                /\ g > events[n].group
           /\ events[n].count >= 2

\* the notes of the example, built at beats 1, 1.5 and 2 without keys
C10_Example ==
    /\ [i \in DOMAIN built |-> <<built[i].group, built[i].beat>>]
            = <<<<None, 2>>, <<None, 3>>, <<None, 4>>>>
    /\ \A i \in DOMAIN events : events[i].group = 1 /\ events[i].count = i
    /\ groups = <<[threshold |-> 0, total |-> 3]>>

---------------------------------------------------------------------------
(* Claims about the finishing of targets and the game loop *)

\* event i has been registered by the game loop
Registered(i) == pc \in {"loop", "done"} /\ (event_iter = 0 \/ i < event_iter)

\* event i was registered when the handler took its last event: it has left
\* the target queue
SeenByHandler(i) ==
    /\ Registered(i)
    /\ \A k \in DOMAIN target_queue : target_queue[k].node # i

\* C11: once the dispatcher has processed a detector event with time
\* t >= lifespan[1] of a registered target, that target is finished, also
\* when the windows of targets overlap or one contains another.
C11_FinishedAfterLifespan ==
    step # None =>
        \A i \in DOMAIN events :
            (SeenByHandler(i) /\ events[i].lifespan[2] <= step[1].time)
                => is_finished(events[i])

\* the number of places that hold target i: items of the queue, items of the
\* waiting list, and the target's node once it was entered
Occurrences(i) ==
    Len(SelectSeq(target_queue, LAMBDA it : it.node = i))
    + Len(SelectSeq(waiting_targets, LAMBDA it : it.node = i))
    + (IF nodes[i].started THEN 1 ELSE 0)

\* register was called once for each registered event, never for another
C12_Once ==
    pc \in {"loop", "done"} =>
        \A i \in DOMAIN events :
            Occurrences(i) = (IF Registered(i) THEN 1 ELSE 0)

\* the registered events are first in the order of lifespan[0], and the
\* queue holds them in that order
C12_Order ==
    pc \in {"loop", "done"} =>
        /\ \A i, j \in DOMAIN events :
            (Registered(i) /\ ~Registered(j))
                => events[i].lifespan[1] <= events[j].lifespan[1]
        /\ \A k \in 1..(Len(target_queue) - 1) :
            events[target_queue[k].node].lifespan[1]
                <= events[target_queue[k + 1].node].lifespan[1]

\* after the registration step of the tick at time t
C12_AfterTick ==
    (pc = "loop" /\ ltick # None) =>
        \A i \in DOMAIN events :
            Registered(i) <=> events[i].lifespan[1] <= ltick[1].time + prepare_time

\* at the natural end of the loop
C12_AtEnd ==
    pc = "done" => \A i \in DOMAIN events : Registered(i) /\ Occurrences(i) = 1

\* C12: register is called at most once per event and in non-decreasing
\* order of lifespan[0]; after the registration step of a tick at time t
\* exactly the events with lifespan[0] <= t + prepare_time are registered;
\* when the loop runs to its natural end every event has been registered
\* exactly once.
C12_RegisterOnce ==
    /\ C12_Once
    /\ C12_Order
    /\ C12_AfterTick
    /\ C12_AtEnd

\* max(events_end, audio_duration) as the claim states it, for a beatmap
\* with events: the least time that is not before the audio's end nor before
\* any event's lifespan[1] + leadin_time
LoopEnd ==
    CHOOSE m \in {duration} \cup
                 {events[i].lifespan[2] + leadin_time : i \in DOMAIN events} :
        /\ duration <= m
        /\ \A i \in DOMAIN events : events[i].lifespan[2] + leadin_time <= m

\* the loop runs while its ticks are before the end; the tick that stops it
\* is at or after the end, the ticks before it were not, and it has
\* registered nothing and updated nothing
C13_State ==
    /\ (pc = "loop" /\ ltick # None) => ltick[1].time < LoopEnd
    /\ pc = "done" =>
        /\ ltick # None
        /\ ltick[1].time >= LoopEnd
        /\ ltick[1].prev # None => ltick[1].prev[1] < LoopEnd
        /\ event_iter = ltick[1].iter
        /\ playfield = ltick[1].shown

\* nothing is registered or updated by the stopping tick or after it
C13_Step ==
    /\ pc' = "done" => UNCHANGED <<target_queue, event_iter, playfield, ovars>>
    /\ pc = "done" => UNCHANGED vars

\* C13: with a ticker that yields increasing times without bound the game
\* loop terminates: it stops at the first tick with
\* t >= max(events_end, audio_duration), events_end the greatest
\* lifespan[1] + leadin_time, and it registers nothing and updates no score or
\* progress at or after that tick.
C13_LoopTerminates ==
    /\ []C13_State
    /\ [][C13_Step]_vars
    /\ (pc = "loop") ~> (pc \in {"done", "raised"})

\* C13 witness: the loop has stopped at the end of an audio that outlasts the
\* events, leaving unshown the score of a knock that came after the tick
\* before
C13_Witness ==
    /\ pc = "done"
    /\ duration > events_end_time(events)
    /\ ltick[1].time >= duration
    /\ playfield # Some(update_playfield(events))

---------------------------------------------------------------------------
(* Claims about the mixer and the scheduler *)

\* the children that have a start time and have been run, present or ended
Shifted ==
    {c \in {effects[i] : i \in DOMAIN effects} \cup ended :
        c.node.start # None /\ c.node.first # None}

\* the sample at which the buffer of the child's first run starts
FirstBuffer(c) == c.node.first[1].index * mixer[1].buffer_length

\* the output position of the source's first sample
Placed(c) == FirstBuffer(c) + c.node.first[1].offset

\* the source is summed D samples after the start of the buffer of its first
\* run, D the integer nearest to (T - stream_time) * samplerate, sample after
\* sample, and nothing of it before
C14_Placement ==
    mixer # None =>
        \A c \in Shifted :
            c.node.first[1].offset >= 0 =>
                /\ abs(2 * c.node.first[1].offset
                        - (c.node.start[1] - 2 * FirstBuffer(c))) <= 1
                /\ \A a \in summed :
                    a.key = c.key => a.at >= Placed(c) /\ a.src = a.at - Placed(c)
                /\ (/\ c.node.phase = "run"
                    /\ Placed(c) < mixer[1].index * mixer[1].buffer_length) =>
                    [key |-> c.key, at |-> Placed(c), src |-> 0] \in summed

\* the same start time gives the same output position, whichever buffer the
\* effect was first run at
C14_Stable ==
    mixer # None =>
        \A c, d \in Shifted :
            (/\ c.node.start = d.node.start
             /\ c.node.first[1].offset >= 0
             /\ d.node.first[1].offset >= 0) => Placed(c) = Placed(d)

\* C14: an effect added with time T not earlier than the stream time of the
\* buffer of its first run has its first sample summed exactly
\* D = round((T - stream_time) * samplerate) samples after the start of that
\* buffer, also over whole buffers; the output before is left unchanged; the
\* absolute position is the same whichever tick the insertion took effect at.
C14_SampleAccurate ==
    /\ C14_Placement
    /\ C14_Stable

\* C15: an effect added with a time earlier than the stream time of the
\* buffer of its first run (D < 0) has exactly its first |D| samples
\* discarded, in pieces of at most one buffer; the skipping loop terminates;
\* the rest of the source is summed from the first sample of that buffer.
C15_DiscardEarly ==
    mixer # None =>
        /\ mixer[1].pc # "hung"
        /\ \A c \in Shifted :
            c.node.first[1].offset < 0 =>
                /\ c.node.phase # "hung"
                /\ c.node.discarded = -c.node.first[1].offset
                /\ \A a \in summed :
                    a.key = c.key =>
                        /\ a.at >= FirstBuffer(c)
                        /\ a.src = a.at - FirstBuffer(c) - c.node.first[1].offset
                /\ -c.node.first[1].offset < c.node.len =>
                    [key |-> c.key, at |-> FirstBuffer(c),
                     src |-> -c.node.first[1].offset] \in summed

\* the keys of the scheduler's children
EffectKeys(children) == {children[i].key : i \in 1..Len(children)}

\* the output of the next buffer with these children
NextOutput(children) ==
    sched_send(children, mixer[1].index,
               mixer[1].index * mixer[1].buffer_length,
               mixer[1].buffer_length)

\* in every state: removing a key twice is removing it once, for the set of
\* effects and for the output that follows, and removing a key that is not
\* there changes nothing
C16_State ==
    mixer # None =>
        \A key \in MixerKeys :
            LET once == sched_apply(effects, remove_effect(key))
                twice == sched_apply(once, remove_effect(key))
            IN  /\ twice = once
                /\ NextOutput(twice) = NextOutput(once)
                /\ key \notin EffectKeys(once)
                /\ key \notin EffectKeys(effects) => once = effects

\* a removal taken by the scheduler removes the one child of that key and
\* leaves the others; the mixer goes on
C16_Step ==
    (/\ mixer # None
     /\ mlog' # mlog
     /\ ~Last(mlog').insert) =>
        /\ effects' = SelectSeq(effects, LAMBDA c : c.key # Last(mlog').key)
        /\ Last(mlog').key \notin EffectKeys(effects) => effects' = effects
        /\ mixer'[1].pc = "drain"
        /\ UNCHANGED <<summed, ended>>

Ids(seq) == [i \in 1..Len(seq) |-> seq[i].id]

\* C17: the mutations put by any thread are applied by the owning node no
\* later than at the start of its next step, in the order they were put; none
\* is lost and none is applied twice.
C17_MutationsInOrder ==
    mixer # None =>
        /\ Ids(mlog) \o Ids(mutations)
               = [i \in 1..(mixer[1].adds + mixer[1].removes) |-> i]
        /\ \A i \in 1..Len(mlog) :
            mlog[i].at <= mlog[i].index /\ mlog[i].index <= mlog[i].at + 1
        /\ \A i \in 1..Len(mutations) : mutations[i].at = mixer[1].index

\* insertions and removals have been applied at two steps, one of them put
\* while the scheduler was taking the queue
C17_Witness ==
    /\ Len(mlog) >= 3
    /\ mlog[1].index < mlog[3].index
    /\ mlog[2].index = mlog[3].index
    /\ \E i, j \in 1..Len(mlog) : mlog[i].insert /\ ~mlog[j].insert
    /\ mutations # <<>>

\* the hop a tuple sent to the listeners is stamped with
HopOf(tuple) == tuple.time - detector[1].delay

\* the tuples after the padding carry the strength of the hop of their time
C18_Strength ==
    detector # None =>
        \A k \in 1..Len(detector[1].sent) :
            k > detector[1].prepare =>
                LET h == HopOf(detector[1].sent[k])
                IN  /\ h \in 0..(Len(detector[1].onsets) - 1)
                    /\ detector[1].sent[k].strength * detector[1].energy
                           = detector[1].onsets[h + 1]

\* a tuple says detected only for the hop the peak picker judged a peak
C18_Detected ==
    detector # None =>
        \A k \in 1..Len(detector[1].sent) :
            detector[1].sent[k].detected =>
                \E j \in 1..Len(detector[1].judged) :
                    /\ detector[1].judged[j].detected
                    /\ detector[1].judged[j].hop = HopOf(detector[1].sent[k])

\* the k-th tuple sent carries the k-th judgement less `prepare`: the time
\* reported for a peak is within one hop of the peak
C18_WithinOneHop ==
    detector # None =>
        \A k \in 1..Len(detector[1].sent) :
            detector[1].sent[k].detected =>
                \E j \in 1..Len(detector[1].judged) :
                    /\ detector[1].judged[j].detected
                    /\ detector[1].judged[j].hop
                           - HopOf(detector[1].sent[k]) \in {-1, 0, 1}

\* C18: every tuple (t, strength, detected) passed to the listeners is
\* aligned: strength is the onset strength of the hop of time
\* t = hop_index * hop_length / samplerate + delay, detected is true only if
\* that hop is the one the peak picker judged a peak, and the time reported
\* for an onset at hop h is within one hop of h * hop_length / samplerate +
\* delay, for any settings.
C18_TuplesAligned ==
    /\ C18_Strength
    /\ C18_Detected
    /\ C18_WithinOneHop

\* the calls made on the node so far
NodeLog == IF datanode = None THEN <<>> ELSE datanode[1].log

\* send on a node never started or already closed fails and leaves the
\* generator alone; close on a node never started fails
C19_SendAndClose ==
    \A k \in 1..Len(NodeLog) :
        LET e == NodeLog[k]
        IN  /\ (e.op = "send" /\ (~e.started \/ e.stopped)) =>
                 e.result = "RuntimeError" /\ ~e.touched
            /\ (e.op = "exit" /\ ~e.started) =>
                 e.result = "RuntimeError" /\ ~e.touched
            /\ (e.op = "send" /\ e.ran) => e.started /\ ~e.stopped

\* start on a node already closed fails
C19_StartClosed ==
    \A k \in 1..Len(NodeLog) :
        (NodeLog[k].op = "enter" /\ NodeLog[k].stopped) =>
            NodeLog[k].result = "RuntimeError"

\* C19: send on a node never started or already closed fails with an
\* invalid-state error without advancing the node, start on an already
\* closed node fails, close on a never started node fails; data is
\* processed only by a node started and not yet closed.
C19_InvalidState ==
    /\ C19_SendAndClose
    /\ C19_StartClosed

\* C20: close is idempotent: closing a started node a second time, with or
\* without an error argument, returns without error and without touching
\* the generator again; the generator is released exactly once.
C20_CloseIdempotent ==
    /\ \A k \in 1..Len(NodeLog) :
        (NodeLog[k].op = "exit" /\ NodeLog[k].stopped) =>
            /\ NodeLog[k].result = "False"
            /\ ~NodeLog[k].touched
    /\ datanode # None =>
        Cardinality({k \in 1..Len(NodeLog) : NodeLog[k].released})
            = IF datanode[1].node.stopped THEN 1 ELSE 0

\* a node that was started and running has been closed, then closed again
\* once with and once without an error argument
C20_Witness ==
    \E i, j, k \in 1..Len(NodeLog) :
        /\ i < j /\ j < k
        /\ NodeLog[i].op = "exit" /\ NodeLog[i].ran
        /\ NodeLog[j].op = "exit" /\ NodeLog[j].arg = None
        /\ NodeLog[k].op = "exit" /\ NodeLog[k].arg # None

\* the children named by the calls of one kind, in the order of the calls
ChildrenCalled(op) ==
    LET calls == SelectSeq(composite[1].log, LAMBDA e : e.op = op)
    IN  [k \in 1..Len(calls) |-> calls[k].child]

\* the number of children that were entered without error
EnteredChildren ==
    Len(SelectSeq(composite[1].log,
                  LAMBDA e : e.op = "enter" /\ e.result = "self"))

\* C21: a composite node (pipe, pair, chain) starts its children in
\* construction order, and when it is closed, normally or because a child
\* raised an error during a step, every child is closed exactly once, in the
\* reverse of construction order; an error raised by one child's close does
\* not keep the others from being closed.
C21_CompositeClose ==
    composite # None =>
        /\ ChildrenCalled("enter")
               = [k \in 1..Len(ChildrenCalled("enter")) |-> k]
        /\ composite[1].generator = "suspended" =>
               /\ EnteredChildren = Len(composite[1].children)
               /\ ChildrenCalled("exit") = <<>>
        /\ composite[1].generator = "finished" =>
               /\ ChildrenCalled("exit")
                      = [k \in 1..EnteredChildren |-> EnteredChildren + 1 - k]
               /\ \A k \in 1..Len(composite[1].log) :
                      composite[1].log[k].op = "exit" =>
                          composite[1].log[k].released
               /\ \A i \in 1..EnteredChildren :
                      composite[1].children[i].stopped

\* a pipe of three children was closed because the second raised an error in
\* a step; the close of the third raised, and the others were closed
C21_Witness ==
    /\ composite # None
    /\ composite[1].kind = "pipe"
    /\ Len(composite[1].children) = 3
    /\ \E k \in 1..Len(composite[1].log) :
        /\ composite[1].log[k].op = "send"
        /\ composite[1].log[k].child = 2
        /\ composite[1].log[k].result = "raised"
    /\ \E k \in 1..Len(composite[1].log) :
        /\ composite[1].log[k].op = "exit"
        /\ composite[1].log[k].child = 3
        /\ composite[1].log[k].result = "raised"
    /\ ChildrenCalled("exit") = <<3, 2, 1>>

\* C22: unchunk(n, s) delivers to n the samples it has received, in order,
\* without loss or duplication, in consecutive blocks of exactly s samples,
\* whatever the lengths of the incoming buffers; the blocks of chunk(., s)
\* pass through unchunk(n, s) unchanged, so that a stream whose length is a
\* multiple of s reaches n as it was.
C22_UnchunkBlocks ==
    unchunker # None =>
        LET u == unchunker[1]
            s == Len(u.node.chunk)
            all == Flatten(u.sent)
            chunked == chunk(u.sent, s)
            through == unchunk_sends(unchunk(s), chunked)
        IN  /\ \A k \in 1..Len(u.node.out) : Len(u.node.out[k]) = s
            /\ Flatten(u.node.out) = SubSeq(all, 1, s * (Len(all) \div s))
            /\ u.node.index = Len(all) % s
            /\ through.out = chunked
            /\ Len(all) % s = 0 => Flatten(through.out) = all

\* buffers longer and shorter than a block and an empty one have made two
\* blocks or more, and the stream is a whole number of blocks
C22_Witness ==
    /\ unchunker # None
    /\ Len(unchunker[1].node.out) >= 2
    /\ Len(Flatten(unchunker[1].sent)) % Len(unchunker[1].node.chunk) = 0
    /\ \E k \in 1..Len(unchunker[1].sent) : Len(unchunker[1].sent[k]) = 0
    /\ \E k \in 1..Len(unchunker[1].sent) :
        Len(unchunker[1].sent[k]) > Len(unchunker[1].node.chunk)
    /\ \E k \in 1..Len(unchunker[1].sent) :
        Len(unchunker[1].sent[k]) \in 1..(Len(unchunker[1].node.chunk) - 1)

\* C23: an unchunk node closed while it holds a partial block (1 to s - 1
\* samples) pads the block with zeros to s samples and delivers it to the
\* inner node before the inner node is closed: no trailing sample is lost.
C23_PadOnClose ==
    (unchunker # None /\ unchunker[1].stopped) =>
        /\ unchunker[1].inner = "exited"
        /\ unchunker[1].node.out
               = chunk(unchunker[1].sent, Len(unchunker[1].node.chunk))

\* the columns of a line of `width` cells that a mask allows
MaskColumns(width, mask) ==
    {c \in 0..(width - 1) :
        /\ slice_bound(mask[1], width, 0) <= c
        /\ c < slice_bound(mask[2], width, width)}

\* the column of the k-th character of the last addstr: every character
\* before it has moved the column by one, a backspace back
ColumnOf(k) ==
    LET l == line[1].last[1]
    IN  round(l.index2)
        + Cardinality({j \in 1..(k - 1) : l.str[j] # "\\b"})
        - Cardinality({j \in 1..(k - 1) : l.str[j] = "\\b"})

\* the characters of the last addstr that are written at column c
WrittenAt(c) ==
    {k \in 1..Len(line[1].last[1].str) :
        /\ line[1].last[1].str[k] \notin {"\\t", "\\b"}
        /\ ColumnOf(k) = c}

\* C24: addstr(index, text, mask) changes only cells whose column is in
\* [0, width) and in the mask range; a tab moves the column on by one and a
\* backspace back by one without writing; every other character is written
\* at the current column, if allowed, and moves it on by one; the line keeps
\* exactly width cells after addstr and clear.
C24_AddstrInMask ==
    (line # None /\ line[1].last # None) =>
        LET l == line[1].line
            last == line[1].last[1]
        IN  /\ Len(l.chars) = l.width
            /\ last.op = "clear" => \A i \in 1..l.width : l.chars[i] = " "
            /\ last.op = "addstr" =>
                \A c \in 0..(l.width - 1) :
                    /\ l.chars[c + 1] # last.before[c + 1] =>
                           c \in MaskColumns(l.width, last.mask)
                    /\ l.chars[c + 1] =
                           IF c \in MaskColumns(l.width, last.mask)
                              /\ WrittenAt(c) # {}
                           THEN last.str[SetMax(WrittenAt(c))]
                           ELSE last.before[c + 1]

\* an addstr at a float index, with a tab or a backspace among its characters,
\* has changed a cell and has left alone a cell that the mask does not allow
C24_Witness ==
    /\ line # None
    /\ line[1].last # None
    /\ line[1].last[1].op = "addstr"
    /\ line[1].last[1].index2 % 2 = 1
    /\ \E i \in 1..Len(line[1].last[1].str) :
        line[1].last[1].str[i] \in {"\\t", "\\b"}
    /\ \E c \in 0..(line[1].line.width - 1) :
        line[1].line.chars[c + 1] # line[1].last[1].before[c + 1]
    /\ \E c \in 0..(line[1].line.width - 1) :
        /\ WrittenAt(c) # {}
        /\ c \notin MaskColumns(line[1].line.width, line[1].last[1].mask)


\* what run left, grouped as the layers of the pipeline, top first
Layer(name) ==
    CASE name = "program" -> 1
      [] name \in Started -> 2
      [] name \in {"mixer", "detector", "renderer"} -> 3
      [] OTHER -> 4
TopDown(closed) ==
    \A i, j \in DOMAIN closed : i < j => Layer(closed[i]) <= Layer(closed[j])

\* C25: once a SIGINT has been delivered while run executes, the stopped flag
\* is set and no tick is issued after the one in progress; and whenever run
\* is left, by the flag or by an error, everything it entered has been closed
\* top-down: the program, then the streams and the display thread, then the
\* three nodes, the audio manager last.
C25_SigintStops ==
    console # None =>
        /\ console[1].sigints > 0 =>
              console[1].stopped /\ console[1].issued = 0
        /\ console[1].pc = "done" =>
              /\ TopDown(console[1].closed)
              /\ Len(console[1].closed) = Len(console[1].opened)

\* C26: every target has
\* lifespan[0] <= range[0] <= time <= range[1] <= lifespan[1], whatever its
\* beat, its length >= 0, its speed and the tolerances.
C26_RangeInLifespan ==
    \A i \in DOMAIN events :
        /\ events[i].lifespan[1] <= events[i].range[1]
        /\ events[i].range[1] <= events[i].time
        /\ events[i].time <= events[i].range[2]
        /\ events[i].range[2] <= events[i].lifespan[2]


\* C27: a Roll or a Spin of zero length has full_score 0, is finished from
\* its construction onward, and its score can be read at every moment and
\* is 0.
C27_ZeroLength ==
    \A i \in DOMAIN events :
        (events[i].kind \in {"Roll", "Spin"}
            /\ events[i].end = events[i].time) =>
                /\ events[i].full_score = 0
                /\ is_finished(events[i])
                /\ ~score_raises(events[i])
                /\ score(events[i]) = 0


\* C28: with an empty event list, or one whose events carry no full_score,
\* the game starts without error (and then ticks until the audio's end and
\* shuts down cleanly).
C28_EmptyListStarts ==
    total_score(events) = 0 => pc # "raised"


\* the Soft note of tolerance 0.02 (2 units of 0.01 s) whose last hit came
\* 0.05 s = 2.5 * tol after its time, with strength 0.2
LateSoftHit(i) ==
    /\ LastHit(i)
    /\ events[i].kind = "Soft"
    /\ events[i].performance_tolerance = 2
    /\ call[1].time = events[i].time + 5
    /\ call[1].strength = 2

\* C29 as stated: a Soft note with tol = 0.02 hit 2.5 * tol late with
\* strength 0.2 ends with perf = LATE_BAD and score = 2.
C29_Original ==
    \A i \in DOMAIN events :
        LateSoftHit(i) =>
            events[i].perf = "LATE_BAD" /\ score(events[i]) = 2

\* C29 (amended): a Soft note with tol = 0.02 hit 2.5 * tol late with
\* strength 0.2 ends with perf = LATE_GOOD and score = 8 under the default
\* score table.
C29_LateGood ==
    \A i \in DOMAIN events :
        LateSoftHit(i) =>
            events[i].perf = "LATE_GOOD" /\ score(events[i]) = 8

\* C29 witness: such a hit has been judged
C29_Witness ==
    \E i \in DOMAIN events :
        LateSoftHit(i) /\ events[i].perf # NoPerf /\ nhits[i] = 1


\* C30: for each of the formats i4, i2, i1 and u1 and every raw sample of
\* that format, the normalised value handed to the node lies in [-1, 1].
C30_Normalised ==
    (recorder # None /\ recorder[1].data # None) =>
        \A k \in 1..buffer_shape : InUnit(recorder[1].data[1][k])


\* the samples of the source whose index lies in [start, end), in order
InSpan(t) ==
    LET lo == IF t.start = None THEN 0 ELSE t.start[1]
        hi == IF t.end = None THEN Len(t.all) ELSE t.end[1]
    IN  SelectSeq(t.all, LAMBDA x : lo <= x /\ x < hi)

IsPrefix(a, b) == Len(a) <= Len(b) /\ a = SubSeq(b, 1, Len(a))

\* C31: tslice yields exactly the source samples whose index lies in
\* [round(start*samplerate), round(end*samplerate)), in order, without loss
\* or duplication, for any partition of the source and every start; then
\* the stream ends.
C31_Slice ==
    tslicer # None =>
        /\ IsPrefix(tslicer[1].out, InSpan(tslicer[1]))
        /\ tslicer[1].pc \in {"returned", "raised"} =>
                tslicer[1].out = InSpan(tslicer[1])


\* input sample i of the peak picker; the samples before the first and
\* those not yet received count as zero
PickInput(i) ==
    IF i >= 0 /\ i < Len(detector[1].onsets)
    THEN detector[1].onsets[i + 1] ELSE 0

\* the sample judged at step n (n = 0 for the first input)
PickCentre(n) == n - detector[1].picker.delay

\* x[c] is the maximum of x[c-pre_max .. c+post_max]
PickIsMax(c) ==
    \A i \in (c - detector[1].picker.pre_max)..(c + detector[1].picker.post_max) :
        PickInput(i) <= PickInput(c)

\* x[c] >= mean(x[c-pre_avg .. c+post_avg]) + delta, times the window's size
PickAboveMean(c) ==
    LET p == detector[1].picker
        window == [k \in 1..(p.pre_avg + p.post_avg + 1) |->
                      PickInput(c - p.pre_avg + k - 1)]
    IN  PickInput(c) * Len(window) >= sum(window) + p.delta * Len(window)

\* more than `wait` steps have passed since the previous detection
PickWaited(n) ==
    \A m \in 0..(n - 1) :
        detector[1].judged[m + 1].detected => n - m > detector[1].picker.wait

PickSteps == 0..(Len(detector[1].judged) - 1)

\* C32 as stated: the output of step n is true iff the three conditions hold
\* of the sample c = n - max(post_max, post_avg).
C32_Original ==
    detector # None =>
        \A n \in PickSteps :
            detector[1].judged[n + 1].detected
                <=> /\ PickIsMax(PickCentre(n))
                    /\ PickAboveMean(PickCentre(n))
                    /\ PickWaited(n)

\* C32 (amended): at the step where input sample n arrives pick_peak emits
\* the decision for sample c = n - max(post_max, post_avg); the output is
\* true iff c >= 0, x[c] is the maximum of x[c-pre_max .. c+post_max],
\* x[c] >= mean(x[c-pre_avg .. c+post_avg]) + delta and more than `wait`
\* steps have passed since the previous detection; so any two detections are
\* more than `wait` steps apart and none is emitted before the first real
\* sample has reached the centre.
C32_PickPeak ==
    detector # None =>
        \A n \in PickSteps :
            /\ detector[1].judged[n + 1].hop =
                    (IF PickCentre(n) >= 0 THEN PickCentre(n) ELSE -1)
            /\ detector[1].judged[n + 1].detected
                    <=> /\ PickCentre(n) >= 0
                        /\ PickIsMax(PickCentre(n))
                        /\ PickAboveMean(PickCentre(n))
                        /\ PickWaited(n)
            /\ detector[1].judged[n + 1].detected =>
                    /\ PickCentre(n) >= 0
                    /\ \A m \in 0..(n - 1) :
                          detector[1].judged[m + 1].detected
                              => n - m > detector[1].picker.wait

\* C32 witness: with a delay and a wait, a peak has been detected and a later
\* sample that is a maximum above the mean was refused for the wait
C32_Witness ==
    /\ detector # None
    /\ detector[1].picker.delay > 0
    /\ detector[1].picker.wait > 0
    /\ \E m, n \in PickSteps :
          /\ m < n
          /\ detector[1].judged[m + 1].detected
          /\ PickCentre(n) >= 0
          /\ PickIsMax(PickCentre(n))
          /\ PickAboveMean(PickCentre(n))
          /\ ~detector[1].judged[n + 1].detected


\* the sends a step of the composite has made to its children, in order
SendsOfStep ==
    SelectSeq(SubSeq(composite'[1].log, Len(composite[1].log) + 1,
                     Len(composite'[1].log)),
              LAMBDA e : e.op = "send")

\* the step sends an input to a running chain and no child fails
ChainStep ==
    /\ composite # None
    /\ composite[1].kind = "chain"
    /\ composite[1].generator = "suspended"
    /\ SendsOfStep # <<>>
    /\ \A k \in DOMAIN SendsOfStep :
          SendsOfStep[k].result \in {"value", "StopIteration"}

\* C33: chain forwards each input to the current child and returns its
\* output; when the current child signals the end on an input, the next
\* child is handed that input within the same step, over all children that
\* end at once; the chain signals the end only when the last child has
\* ended, and no input is dropped at a hand-over.
C33_Step ==
    ChainStep =>
        LET sends == SendsOfStep
            last == sends[Len(sends)]
            n == Len(composite[1].children)
        IN  /\ sends[1].child = composite[1].current
            /\ \A k \in 1..(Len(sends) - 1) :
                  /\ sends[k].result = "StopIteration"
                  /\ sends[k + 1].child = sends[k].child + 1
            /\ last.result = "value" =>
                  /\ composite'[1].result = "value"
                  /\ composite'[1].current = last.child
                  /\ composite'[1].generator = "suspended"
            /\ last.result = "StopIteration" =>
                  /\ last.child = n
                  /\ composite'[1].generator = "finished"
            /\ composite'[1].result = "StopIteration" =>
                  last.child = n /\ last.result = "StopIteration"

C33_Chain == [][C33_Step]_vars

\* C33 witness: a chain of three whose first two children have ended on one
\* input and whose third has returned an output for it
C33_Witness ==
    /\ composite # None
    /\ composite[1].kind = "chain"
    /\ Len(composite[1].children) = 3
    /\ composite[1].current = 3
    /\ composite[1].result = "value"
    /\ Len(composite[1].log) >= 3
    /\ LET log == composite[1].log
           k == Len(log)
       IN  /\ log[k] = [log[k] EXCEPT !.child = 3, !.op = "send",
                                      !.result = "value"]
           /\ log[k - 1] = [log[k - 1] EXCEPT !.child = 2, !.op = "send",
                                              !.result = "StopIteration"]
           /\ log[k - 2] = [log[k - 2] EXCEPT !.child = 1, !.op = "send",
                                              !.result = "StopIteration"]


\* C34: on its k-th tick the renderer passes k / framerate + delay to the
\* drawers after clearing the line, so the frame holds only what the drawers
\* of that tick wrote, and the tick counter advances by one per frame
\* whatever the wall clock did.
C34_Frame ==
    (renderer # None /\ renderer[1].frames > 0) =>
        LET r == renderer[1]
            k == r.frames - 1
        IN  /\ r.index = r.frames
            /\ r.time4[1] * r.framerate = k * 4 + r.delay4 * r.framerate
            /\ r.frame[1] =
                  display(draw(TerminalLine(r.screen.width), r.drawn))

\* C34 witness: a late third frame whose drawers left a cell blank that the
\* frame before had written
C34_Witness ==
    /\ renderer # None
    /\ renderer[1].frames = 3
    /\ renderer[1].wall4 > 3 * (4 \div renderer[1].framerate)
    /\ renderer[1].drawn # <<>>
    /\ renderer[1].screen.chars[1] = " "
    /\ \E i \in 2..renderer[1].screen.width :
          renderer[1].screen.chars[i] # " "


\* the ticks of the Shift event's drawer so far
ShiftLog == shifter[1].log

\* bar_shift at the first tick with t >= start, before that tick wrote
ShiftFrom ==
    LET k == CHOOSE k \in DOMAIN ShiftLog :
                 /\ ShiftLog[k].t >= shifter[1].time
                 /\ \A j \in 1..(k - 1) : ShiftLog[j].t < shifter[1].time
    IN  ShiftLog[k].before

\* C35: a Shift event leaves bar_shift alone on the ticks before its start,
\* sets it to shift0 + (target - shift0) * (t - start) / (end - start) on
\* every tick with start <= t < end, to target at the first tick with
\* t >= end, and never writes it afterwards; a zero-length Shift jumps
\* straight to target.
C35_Shift ==
    shifter # None =>
        \A k \in DOMAIN ShiftLog :
            LET e == shifter[1]
                tick == ShiftLog[k]
            IN  /\ tick.t < e.time =>
                      ~tick.wrote /\ tick.after = tick.before
                /\ (e.time <= tick.t /\ tick.t < e.end) =>
                      /\ tick.wrote
                      /\ tick.after * (e.end - e.time) =
                            ShiftFrom * (e.end - e.time)
                                + (e.shift - ShiftFrom) * (tick.t - e.time)
                /\ (tick.t >= e.end
                        /\ \A j \in 1..(k - 1) : ShiftLog[j].t < e.end) =>
                      tick.wrote /\ tick.after = e.shift
                /\ (\E j \in 1..(k - 1) : ShiftLog[j].t >= e.end) =>
                      ~tick.wrote /\ tick.after = tick.before

\* C35 witness: a ramp from a shift other than 0 that was seen on its way,
\* reached its target and was then left alone
C35_Witness ==
    /\ shifter # None
    /\ shifter[1].pc = "ended"
    /\ shifter[1].shift0 # 0
    /\ shifter[1].shift # shifter[1].shift0
    /\ \E k \in DOMAIN ShiftLog :
          /\ ShiftLog[k].t > shifter[1].time
          /\ ShiftLog[k].t < shifter[1].end
          /\ ShiftLog[k].wrote
          /\ ShiftLog[k].after # shifter[1].shift0
    /\ shifter[1].bar_shift = shifter[1].shift


\* the operations of the last detector event on the node of target i
OpsOn(i) ==
    IF step = None THEN <<>>
    ELSE SelectSeq(step[1].ops, LAMBDA e : e.node = i)

\* a judged Soft, Loud or Incr keeps its perf and its score
C36_Step ==
    \A i \in DOMAIN events :
        (i \in DOMAIN events' /\ events[i].kind \in Oneshots
            /\ events[i].perf # NoPerf) =>
                /\ events'[i].perf = events[i].perf
                /\ score(events'[i]) = score(events[i])
                /\ nhits'[i] = nhits[i]

\* it is knocked once at most; a knock judges it with a grade other than
\* MISS, the closing of its window with MISS
C36_State ==
    \A i \in DOMAIN events :
        events[i].kind \in Oneshots =>
            /\ nhits[i] <= 1
            /\ nhits[i] = 1 => events[i].perf \notin {NoPerf, MISS}
            /\ (nhits[i] = 0 /\ events[i].perf # NoPerf) =>
                  events[i].perf = MISS

\* C36: a Soft, Loud or Incr target is judged once: the first knock
\* delivered to it, or the closing of its window if none was, fixes perf,
\* and no later detector event, knock or close changes its perf or score.
C36_JudgedOnce == [][C36_Step]_vars /\ []C36_State

\* C36 witness: a target judged by a knock has been passed by a later
\* detected knock inside its window
C36_Witness ==
    \E i \in DOMAIN events :
        /\ events[i].kind \in Oneshots
        /\ nhits[i] = 1
        /\ step # None
        /\ step[1].detected
        /\ step[1].time < events[i].range[2]
        /\ events[i].range[1] <= step[1].time
        /\ OpsOn(i) = <<>>


\* the knocks the last detector event has delivered
SendsOfEvent ==
    IF step = None THEN <<>>
    ELSE SelectSeq(step[1].ops, LAMBDA e : e.op = "send")

\* C37: a detected knock is delivered to one target at most: when it
\* finishes the active target it is not passed on to the next waiting
\* target, even if that target's window holds the knock time.
C37_OneTarget ==
    step # None =>
        /\ Len(SendsOfEvent) <= 1
        /\ ~step[1].detected => SendsOfEvent = <<>>
        /\ SendsOfEvent # <<>> =>
              /\ Last(step[1].ops).op = "send"
              /\ SendsOfEvent[1].time = step[1].time
              /\ target = None =>
                    \A k \in DOMAIN waiting_targets :
                        nhits[waiting_targets[k].node] = 0

\* C37 witness: a knock has finished the active target while the next
\* target was waiting with the knock inside its window
C37_Witness ==
    /\ step # None
    /\ SendsOfEvent # <<>>
    /\ target = None
    /\ waiting_targets # <<>>
    /\ Head(waiting_targets).start <= step[1].time
    /\ step[1].time < Head(waiting_targets).start
                          + Head(waiting_targets).duration
    /\ nhits[Head(waiting_targets).node] = 0


\* the fraction shown as progress, as <<finished, total>>
Progress == playfield[1].progress

\* a tick of the game loop, or the first update_playfield of connect
Updates ==
    \/ pc = "init" /\ pc' = "loop"
    \/ pc = "loop" /\ ~ticked /\ ticked' /\ pc' = "loop"

\* is_finished never reverts; the progress never decreases; at an update it
\* is 1.0 exactly when every target is finished
C38_Step ==
    /\ pc = "loop" =>
          \A i \in DOMAIN events :
              is_finished(events[i]) => is_finished(events'[i])
    /\ (playfield # None /\ playfield' # None) =>
          Progress[1] * Progress'[2] <= Progress'[1] * Progress[2]
    /\ Updates =>
          ((Progress'[1] = Progress'[2])
              <=> \A i \in DOMAIN events' : is_finished(events'[i]))

\* the progress lies in [0, 1]
C38_Range ==
    playfield # None =>
        /\ Progress[2] > 0
        /\ 0 <= Progress[1]
        /\ Progress[1] <= Progress[2]

\* a beatmap without targets shows the progress 1.0 once connected
C38_NoTargets ==
    (events = <<>> /\ pc # "init") =>
        (playfield # None /\ Progress[1] = Progress[2])

\* the statement for the beatmaps that have targets
C38_WithTargets == [][C38_Step]_vars /\ []C38_Range

\* C38: for every target is_finished never reverts from true to false; the
\* playfield's progress is non-decreasing from tick to tick, always lies in
\* [0, 1], is 1.0 when the beatmap has no targets, and equals 1.0 exactly
\* when every target is finished.
C38_Progress ==
    [][C38_Step]_vars /\ [](C38_Range /\ C38_NoTargets)

\* a tick has shown the progress 1.0 while an earlier one showed less
C38_Reached ==
    /\ playfield # None
    /\ Progress[1] = Progress[2]
    /\ Len(events) = 2
    /\ pc = "loop"

\* the drawers in place that were registered by the method `by` under `key`
RegisteredBy(by, key) ==
    {i \in DOMAIN drawers[1].children :
        /\ drawers[1].children[i].node.by = by
        /\ drawers[1].children[i].key[2] = key}

\* C40: a callback registered with on_before_render(node, key) or
\* on_after_render(node, key) can be removed again with
\* remove_before_render_callback(key) or remove_after_render_callback(key):
\* the call completes without error, and once the renderer has taken the
\* queue the drawer registered under that key is gone.
C40_Removable ==
    (drawers # None /\ drawers[1].last # None) =>
        LET last == drawers[1].last[1]
            by == IF last.op = "remove_before_render_callback"
                  THEN "before" ELSE "after"
        IN  (/\ last.op \in {"remove_before_render_callback",
                             "remove_after_render_callback"}
             /\ <<by, last.key>> \in drawers[1].registered)
            => /\ last.raised = None
               /\ drawers[1].mutations = <<>>
                      => RegisteredBy(by, last.key) = {}

\* the steps of the shutdown that were taken
ShutdownDid(does) ==
    \E k \in 1..audio[1].left : shutdown_step(k) = does

\* C39: an audio stream callback never calls send on a closed node, under
\* any interleaving of the callback thread with the thread that shuts the
\* stream down: the stream is stopped and closed before the node is closed,
\* and a callback that finds the node already stopped reports completion
\* without sending.
C39_NoSendOnClosed ==
    audio # None =>
        /\ \A k \in DOMAIN audio[1].log :
              LET c == audio[1].log[k]
              IN  /\ ~c.on_closed
                  /\ c.found_stopped =>
                        (~c.sent /\ c.result = "paComplete")
        /\ ShutdownDid("exit") =>
              /\ ShutdownDid("stop_stream")
              /\ ShutdownDid("close")
              /\ audio[1].stream = "closed"
              /\ audio[1].callback = "idle"

\* C39 witness: a callback checked the node, the body was left, the
\* callback sent while the shutdown waited, and the node is closed now
C39_Witness ==
    /\ audio # None
    /\ audio[1].main = "done"
    /\ audio[1].node.stopped
    /\ \E k \in DOMAIN audio[1].log :
          /\ audio[1].log[k].sent
          /\ audio[1].log[k].during = "shutdown"
=============================================================================
